---------------------------- MODULE Spec2Model ----------------------------
(***************************************************************************)
(* readme-kit: a Fastify 5 server with one health endpoint.                *)
(*                                                                         *)
(* The model follows one HTTP exchange from the router to the response:    *)
(* route lookup, the body parser Fastify runs before a handler, the        *)
(* handler (healthController, methodNotAllowedHandler, Fastify's 404), the *)
(* settling of the handler's promise, the error handler plugin, the        *)
(* response serializer and the request log.  Several exchanges are in      *)
(* flight at once and their steps interleave.                              *)
(***************************************************************************)
EXTENDS Bags, FiniteSets, Integers, Sequences, TLC

VARIABLES
    server,     \* the Fastify instance: logger, error handler, route table
    inflight,   \* bag of exchanges that have arrived and are not yet retired
    buildOpts,  \* the options buildServer is called with
    env,        \* process.env of the process that runs main.ts
    proc,       \* that process: position in start(), config, signal
                \* handlers, calls of server.close(), output, exit
    clock,      \* the health aggregator's Clock.Now()
    registry,   \* the Probe Registry: probes in registration order
    cache,      \* the Result Cache: an entry or none per Kind
    flight,     \* the Health Service's state per Kind: Idle or Running
    callers,    \* the Evaluate calls made so far
    invoked     \* how often each probe's Check has been invoked

webVars == <<server, inflight, buildOpts>>

mainVars == <<env, proc>>

healthVars == <<clock, registry, cache, flight, callers, invoked>>

vars == <<server, inflight, buildOpts, env, proc,
          clock, registry, cache, flight, callers, invoked>>

---------------------------------------------------------------------------
(* Bounds *)

\* Largest number of exchanges in flight at the same time.
MaxInFlight == 2

---------------------------------------------------------------------------
(* Requests *)

Methods == {"GET", "HEAD", "POST", "PUT", "DELETE", "PATCH", "OPTIONS"}

\* Methods whose requests Fastify hands to the handler without reading a body.
BodylessMethods == {"GET", "HEAD"}

\* "/test-error" is unknown to buildServer; the unit tests register it.
Paths == {"/status", "/test-error"}

Queries == {"", "foo=bar&baz=qux"}

\* The content-type header ("none": the header is absent), with and without
\* a parameter after the media type.
ContentTypes == {"none", "application/json", "application/json; charset=utf-8"}

ValidJsonBodies == {"{\"data\":\"test\"}"}

Bodies == {""} \cup ValidJsonBodies \cup {"{bad json"}

\* GET and HEAD requests vary in query string and headers and carry no body;
\* the other methods vary in content type and body.  The content type with
\* a parameter comes with the POST requests to /status.
Requests ==
    { r \in [method : Methods, path : Paths, query : Queries,
             contentType : ContentTypes, body : Bodies] :
        /\ IF r.method \in BodylessMethods THEN r.body = "" ELSE r.query = ""
        /\ r.contentType = "application/json; charset=utf-8"
                => r.method = "POST" /\ r.path = "/status" }

\* The URL of the request line: the path, then the query string if any.
RawUrl(request) ==
    IF request.query = "" THEN request.path
    ELSE request.path \o "?" \o request.query

---------------------------------------------------------------------------
(* JavaScript values *)

\* o[k], or undefined when o has no property k.
Get(o, k) == IF k \in DOMAIN o THEN o[k] ELSE "undefined"

\* a ?? b
Nullish(a, b) == IF a \in {"undefined", "null"} THEN b ELSE a

\* { ...a, ...b }: b's properties override a's, even when undefined.
Spread(a, b) ==
    [k \in DOMAIN a \cup DOMAIN b |-> IF k \in DOMAIN b THEN b[k] ELSE a[k]]

\* The object {} (also the default of an omitted argument).
EmptyObject == [k \in {} |-> "undefined"]

\* A JavaScript number is NaN, an integer, or a number with a fraction: the
\* integer below it and the tenths above that (404.5 is 404 and 5 tenths).
NaN == [isNaN |-> TRUE]

Number(n) == [isNaN |-> FALSE, value |-> n]

Decimal(n, tenths) == [isNaN |-> FALSE, value |-> n, tenths |-> tenths]

IsInteger(n) == ~n.isNaN /\ "tenths" \notin DOMAIN n

\* n >= k and n <= k for an integer k; both are false of NaN.
AtLeast(n, k) == ~n.isNaN /\ n.value >= k

AtMost(n, k) == ~n.isNaN /\ (n.value < k \/ (n.value = k /\ IsInteger(n)))

\* n | 0: the fraction is dropped, and NaN gives 0.
ToInt32(n) ==
    IF n.isNaN THEN 0
    ELSE IF IsInteger(n) \/ n.value >= 0 THEN n.value
    ELSE n.value + 1

\* String(n)
NumberToString(n) ==
    IF n.isNaN THEN "NaN"
    ELSE IF IsInteger(n) THEN ToString(n.value)
    ELSE IF n.value >= 0 THEN ToString(n.value) \o "." \o ToString(n.tenths)
    ELSE "-" \o ToString(-(n.value + 1)) \o "." \o ToString(10 - n.tenths)

---------------------------------------------------------------------------
(* Replies *)

NoBody == [length |-> 0]

\* A reply as Fastify creates it for a request.
NewReply == [statusCode |-> 200, sent |-> FALSE, body |-> NoBody]

\* reply.status(code) accepts a number from 100 to 599, integer or not, and
\* throws FST_ERR_BAD_STATUS_CODE for any other value, NaN included.
ValidStatusCode(code) == AtLeast(code, 100) /\ AtMost(code, 599)

\* reply.status(code).  The reply's statusCode is the status the response
\* line carries: node's writeHead writes statusCode | 0, so that a fraction
\* is dropped.
replyStatus(reply, code) == [reply EXCEPT !.statusCode = ToInt32(code)]

replySend(reply, payload) == [reply EXCEPT !.sent = TRUE, !.body = payload]

---------------------------------------------------------------------------
(* Errors *)

\* Fastify's own errors, as the error handler sees them.
FST_ERR_CTP_EMPTY_JSON_BODY ==
    [statusCode |-> Number(400), name |-> "FastifyError",
     code |-> "FST_ERR_CTP_EMPTY_JSON_BODY",
     message |-> "Body cannot be empty when content-type is set to 'application/json'"]

FST_ERR_CTP_INVALID_JSON_BODY ==
    [statusCode |-> Number(400), name |-> "FastifyError",
     code |-> "FST_ERR_CTP_INVALID_JSON_BODY",
     message |-> "Body is not valid JSON but content-type is set to 'application/json'"]

\* 'Unsupported Media Type: %s' with the content type the request gave, and
\* with undefined for a request without the header.
FST_ERR_CTP_INVALID_MEDIA_TYPE(contentType) ==
    [statusCode |-> Number(415), name |-> "FastifyError",
     code |-> "FST_ERR_CTP_INVALID_MEDIA_TYPE",
     message |-> "Unsupported Media Type: "
                    \o (IF contentType = "none" THEN "undefined"
                        ELSE contentType)]

\* 'Called reply with an invalid status code: %s' with the code given.
FST_ERR_BAD_STATUS_CODE(code) ==
    [statusCode |-> Number(500), name |-> "FastifyError",
     code |-> "FST_ERR_BAD_STATUS_CODE",
     message |-> "Called reply with an invalid status code: "
                    \o NumberToString(code)]

\* The errors a test route throws: with and without a statusCode (valid,
\* zero, NaN, with a fraction, negative and outside 100..599); with a name,
\* an empty name, the default name and no name at all.
ThrownStatusCodes ==
    {Number(n) : n \in {-1, 0, 42, 200, 400, 422, 503, 600}}
        \cup {NaN, Decimal(404, 5), Decimal(99, 5), Decimal(599, 5)}

ThrownNames == {"", "Error", "BadRequestError"}

ThrownMessages == {"Test error"}

ThrownErrors ==
    [name : ThrownNames, message : ThrownMessages]
        \cup [statusCode : ThrownStatusCodes, name : ThrownNames,
              message : ThrownMessages]
        \cup [message : ThrownMessages]
        \cup [statusCode : ThrownStatusCodes, message : ThrownMessages]

\* What a route that throws nothing carries in its throws field.
NoError == [name |-> "", message |-> ""]

\* error.statusCode is truthy: defined, and neither 0 nor NaN.
HasTruthyStatusCode(error) ==
    /\ "statusCode" \in DOMAIN error
    /\ error.statusCode # NaN
    /\ error.statusCode # Number(0)

\* error.name is truthy: defined, and not the empty string.
HasTruthyName(error) ==
    "name" \in DOMAIN error /\ error.name # ""

---------------------------------------------------------------------------
(* The server: Fastify(options), the plugins, the route table *)

\* A route of the table.  throws is the error a test route's handler throws.
Route(method, path, handler, schema, throws) ==
    [method |-> method, path |-> path, handler |-> handler,
     schema |-> schema, throws |-> throws]

\* Fastify(options): logging is on when options.logger is truthy.
Fastify(options) ==
    [logger |-> Get(options, "logger") = "true",
     errorHandler |-> "defaultErrorHandler",
     routes |-> {}]

\* fastify.post / put / delete / patch (path, handler).
addRoute(fastify, method, path, handler, schema, throws) ==
    [fastify EXCEPT !.routes = @ \cup {Route(method, path, handler, schema, throws)}]

\* fastify.get(path, opts, handler): Fastify 5 also exposes the route to HEAD
\* (exposeHeadRoutes is on by default).
get(fastify, path, handler, schema, throws) ==
    addRoute(addRoute(fastify, "GET", path, handler, schema, throws),
             "HEAD", path, handler, schema, throws)

\* The plugin registered without fastify-plugin: its setErrorHandler stays
\* inside the plugin's own scope and the instance keeps Fastify's handler.
errorHandlerPluginEncapsulated(fastify) == fastify

\* The plugin of error-handler.plugin.ts.  Wrapped in fastify-plugin, its
\* setErrorHandler reaches the root instance and every route under it.
errorHandlerPlugin(fastify) == [fastify EXCEPT !.errorHandler = "errorHandler"]

\* healthRoutes with the 405 handler registered for GET as well.
healthRoutesWrongHandler(fastify) ==
    LET f1 == get(fastify, "/status", "methodNotAllowedHandler", "none", NoError)
        f2 == addRoute(f1, "POST", "/status", "methodNotAllowedHandler", "none", NoError)
        f3 == addRoute(f2, "PUT", "/status", "methodNotAllowedHandler", "none", NoError)
        f4 == addRoute(f3, "DELETE", "/status", "methodNotAllowedHandler", "none", NoError)
    IN  addRoute(f4, "PATCH", "/status", "methodNotAllowedHandler", "none", NoError)

healthRoutes(fastify) ==
    LET f1 == get(fastify, "/status", "healthController", "HealthResponse", NoError)
        f2 == addRoute(f1, "POST", "/status", "methodNotAllowedHandler", "none", NoError)
        f3 == addRoute(f2, "PUT", "/status", "methodNotAllowedHandler", "none", NoError)
        f4 == addRoute(f3, "DELETE", "/status", "methodNotAllowedHandler", "none", NoError)
    IN  addRoute(f4, "PATCH", "/status", "methodNotAllowedHandler", "none", NoError)

\* buildServer(opts): Fastify({ logger: opts.logger ?? true, ...opts }), then
\* the error handler plugin, then the health routes.
buildServer(opts) ==
    LET options == Spread([logger |-> Nullish(Get(opts, "logger"), "true")], opts)
    IN  healthRoutes(errorHandlerPlugin(Fastify(options)))

\* The route Fastify's router finds; none: the 404 handler's context.
NotFoundRoute == Route("*", "*", "basic404", "none", NoError)

findRoute(routes, method, path) ==
    LET found == {rt \in routes : rt.method = method /\ rt.path = path}
    IN  IF found = {} THEN NotFoundRoute ELSE CHOOSE rt \in found : TRUE

---------------------------------------------------------------------------
(* The handlers.  Each returns the request and reply as it leaves them and, *)
(* for an async function, the promise it returns.                          *)

UndefinedValue == [undefined |-> TRUE]

NoPromise == [state |-> "none"]

Fulfilled(value) == [state |-> "fulfilled", value |-> value]

Rejected(reason) == [state |-> "rejected", reason |-> reason]

\* healthController throwing instead of answering.
healthControllerThrows(request, reply) ==
    [request |-> request, reply |-> reply,
     promise |-> Rejected([name |-> "Error", message |-> "health check failed"])]

\* healthController rejecting a request that has a query string.
healthControllerChecksQuery(request, reply) ==
    [request |-> request, reply |-> reply,
     promise |-> IF request.query = "" THEN Fulfilled([status |-> "ok"])
                 ELSE Rejected([statusCode |-> Number(400), name |-> "Error",
                                message |-> "unexpected query"])]

\* healthController setting the reply's status code itself.
healthControllerSetsStatus(request, reply) ==
    [request |-> request, reply |-> replyStatus(reply, Number(503)),
     promise |-> Fulfilled([status |-> "ok"])]

healthController(request, reply) ==
    [request |-> request, reply |-> reply,
     promise |-> Fulfilled([status |-> "ok"])]

methodNotAllowedHandler(request, reply) ==
    [request |-> request,
     reply |-> replySend(replyStatus(reply, Number(405)),
                         [statusCode |-> Number(405),
                          error |-> "Method Not Allowed",
                          message |-> "GET method required for /status endpoint"]),
     promise |-> Fulfilled(UndefinedValue)]

\* A test route: async () => { throw error }.
testErrorHandler(request, reply, error) ==
    [request |-> request, reply |-> reply, promise |-> Rejected(error)]

\* Fastify's default 404 handler (synchronous).
basic404(request, reply) ==
    [request |-> request,
     reply |-> replySend(replyStatus(reply, Number(404)),
                         [statusCode |-> Number(404),
                          error |-> "Not Found",
                          message |-> "Route " \o request.method \o ":"
                                      \o RawUrl(request) \o " not found"]),
     promise |-> NoPromise]

\* errorHandler answering 500 whatever the error's statusCode.
errorHandlerAlways500(error, request, reply) ==
    [threw |-> FALSE,
     reply |-> replySend(replyStatus(reply, Number(500)),
                         [statusCode |-> Number(500),
                          error |-> IF HasTruthyName(error) THEN error.name
                                    ELSE "Error",
                          message |-> error.message])]

\* errorHandler with 'Error' as the error field of every body.
errorHandlerDropsName(error, request, reply) ==
    LET statusCode == IF HasTruthyStatusCode(error) THEN error.statusCode
                      ELSE Number(500)
    IN  IF ValidStatusCode(statusCode)
        THEN [threw |-> FALSE,
              reply |-> replySend(replyStatus(reply, statusCode),
                                  [statusCode |-> statusCode,
                                   error |-> "Error",
                                   message |-> error.message])]
        ELSE [threw |-> TRUE, reply |-> reply,
              error |-> FST_ERR_BAD_STATUS_CODE(statusCode)]

\* errorHandler that defaults the response status but writes 500 into the
\* body whatever the status.
errorHandlerBodyAlways500(error, request, reply) ==
    LET statusCode == IF HasTruthyStatusCode(error) THEN error.statusCode
                      ELSE Number(500)
    IN  IF ValidStatusCode(statusCode)
        THEN [threw |-> FALSE,
              reply |-> replySend(replyStatus(reply, statusCode),
                                  [statusCode |-> Number(500),
                                   error |-> IF HasTruthyName(error) THEN error.name
                                             ELSE "Error",
                                   message |-> error.message])]
        ELSE [threw |-> TRUE, reply |-> reply,
              error |-> FST_ERR_BAD_STATUS_CODE(statusCode)]

\* The handler set by the plugin.  reply.status throws for a code outside
\* 100..599, and the handler with it.  The body carries the number the
\* handler computed, the response line that number without its fraction.
errorHandler(error, request, reply) ==
    LET statusCode == IF HasTruthyStatusCode(error) THEN error.statusCode
                      ELSE Number(500)
    IN  IF ValidStatusCode(statusCode)
        THEN [threw |-> FALSE,
              reply |-> replySend(replyStatus(reply, statusCode),
                                  [statusCode |-> statusCode,
                                   error |-> IF HasTruthyName(error) THEN error.name
                                             ELSE "Error",
                                   message |-> error.message])]
        ELSE [threw |-> TRUE, reply |-> reply,
              error |-> FST_ERR_BAD_STATUS_CODE(statusCode)]

\* node's http.STATUS_CODES[number] for the client and server error codes;
\* undefined for a number without a reason phrase.
STATUS_CODES(number) ==
    LET code == IF IsInteger(number) THEN number.value ELSE 0
    IN
    CASE code = 400 -> "Bad Request"
      [] code = 401 -> "Unauthorized"
      [] code = 402 -> "Payment Required"
      [] code = 403 -> "Forbidden"
      [] code = 404 -> "Not Found"
      [] code = 405 -> "Method Not Allowed"
      [] code = 406 -> "Not Acceptable"
      [] code = 407 -> "Proxy Authentication Required"
      [] code = 408 -> "Request Timeout"
      [] code = 409 -> "Conflict"
      [] code = 410 -> "Gone"
      [] code = 411 -> "Length Required"
      [] code = 412 -> "Precondition Failed"
      [] code = 413 -> "Payload Too Large"
      [] code = 414 -> "URI Too Long"
      [] code = 415 -> "Unsupported Media Type"
      [] code = 416 -> "Range Not Satisfiable"
      [] code = 417 -> "Expectation Failed"
      [] code = 418 -> "I'm a Teapot"
      [] code = 421 -> "Misdirected Request"
      [] code = 422 -> "Unprocessable Entity"
      [] code = 423 -> "Locked"
      [] code = 424 -> "Failed Dependency"
      [] code = 425 -> "Too Early"
      [] code = 426 -> "Upgrade Required"
      [] code = 428 -> "Precondition Required"
      [] code = 429 -> "Too Many Requests"
      [] code = 431 -> "Request Header Fields Too Large"
      [] code = 451 -> "Unavailable For Legal Reasons"
      [] code = 500 -> "Internal Server Error"
      [] code = 501 -> "Not Implemented"
      [] code = 502 -> "Bad Gateway"
      [] code = 503 -> "Service Unavailable"
      [] code = 504 -> "Gateway Timeout"
      [] code = 505 -> "HTTP Version Not Supported"
      [] code = 506 -> "Variant Also Negotiates"
      [] code = 507 -> "Insufficient Storage"
      [] code = 508 -> "Loop Detected"
      [] code = 509 -> "Bandwidth Limit Exceeded"
      [] code = 510 -> "Not Extended"
      [] code = 511 -> "Network Authentication Required"
      [] OTHER -> "undefined"

\* Fastify's own error handler: the status is the error's statusCode when it
\* is 400 or more, else 500; the body holds the status, the error's code when
\* it has one, the status text (left out when the status has none) and the
\* error's message.
defaultErrorHandler(error, request, reply) ==
    LET statusCode == IF /\ HasTruthyStatusCode(error)
                         /\ AtLeast(error.statusCode, 400)
                         /\ AtMost(error.statusCode, 599)
                      THEN error.statusCode ELSE Number(500)
        fields == [statusCode |-> statusCode, message |-> error.message]
        named == IF STATUS_CODES(statusCode) = "undefined" THEN fields
                 ELSE fields @@ [error |-> STATUS_CODES(statusCode)]
        body == IF "code" \in DOMAIN error
                THEN named @@ [code |-> error.code] ELSE named
    IN  replySend(replyStatus(reply, statusCode), body)

\* Fastify's handleError: the instance's error handler; when that one throws,
\* the error it threw goes to the next handler, Fastify's own.  The result
\* names the handler that produced the reply and holds what was logged:
\* Fastify's own handler logs the error it answers.
handleError(fastify, error, request, reply) ==
    LET r == IF fastify.errorHandler = "errorHandler"
             THEN errorHandler(error, request, reply)
             ELSE [threw |-> TRUE, reply |-> reply, error |-> error]
    IN  IF r.threw
        THEN [reply |-> defaultErrorHandler(r.error, request, reply),
              handledBy |-> "defaultErrorHandler",
              logged |-> IF fastify.logger THEN <<r.error.message>> ELSE <<>>]
        ELSE [reply |-> r.reply, handledBy |-> "errorHandler",
              logged |-> <<>>]

---------------------------------------------------------------------------
(* JSON: the texts Fastify's JSON parser (secure-json-parse over JSON.parse) *)
(* accepts.  A text is a string, read from its head.  The string a JSON     *)
(* string denotes is the sequence of its characters, one element each: a    *)
(* character of this language's strings stands for itself, and any other    *)
(* is the one element U+XXXX.                                               *)

JsonWhiteSpace == {" ", "\t", "\n", "\r"}

DecimalDigits == {"0", "1", "2", "3", "4", "5", "6", "7", "8", "9"}

HexDigits ==
    ("0" :> 0) @@ ("1" :> 1) @@ ("2" :> 2) @@ ("3" :> 3) @@ ("4" :> 4) @@
    ("5" :> 5) @@ ("6" :> 6) @@ ("7" :> 7) @@ ("8" :> 8) @@ ("9" :> 9) @@
    ("a" :> 10) @@ ("b" :> 11) @@ ("c" :> 12) @@ ("d" :> 13) @@
    ("e" :> 14) @@ ("f" :> 15) @@
    ("A" :> 10) @@ ("B" :> 11) @@ ("C" :> 12) @@ ("D" :> 13) @@
    ("E" :> 14) @@ ("F" :> 15)

\* The characters U+0020 to U+005F and U+0061 to U+007E, in order.
AsciiLow == " !\"#$%&'()*+,-./0123456789:;<=>?@ABCDEFGHIJKLMNOPQRSTUVWXYZ[\\]^_"

AsciiHigh == "abcdefghijklmnopqrstuvwxyz{|}~"

CharAt(text, i) == SubSeq(text, i, i)

StartsWith(text, prefix) ==
    Len(text) >= Len(prefix) /\ SubSeq(text, 1, Len(prefix)) = prefix

Drop(text, n) == SubSeq(text, n + 1, Len(text))

\* String.fromCharCode(code): the character, as one element of a sequence
\* of characters.
fromCharCode(code) ==
    IF code \in 32..95 THEN CharAt(AsciiLow, code - 31)
    ELSE IF code \in 97..126 THEN CharAt(AsciiHigh, code - 96)
    ELSE IF code = 9 THEN "\t"
    ELSE IF code = 10 THEN "\n"
    ELSE IF code = 12 THEN "\f"
    ELSE IF code = 13 THEN "\r"
    ELSE "U+" \o CharAt("0123456789ABCDEF", (code \div 4096) + 1)
              \o CharAt("0123456789ABCDEF", ((code \div 256) % 16) + 1)
              \o CharAt("0123456789ABCDEF", ((code \div 16) % 16) + 1)
              \o CharAt("0123456789ABCDEF", (code % 16) + 1)

JsonEscapes ==
    ("\"" :> "\"") @@ ("\\" :> "\\") @@ ("/" :> "/") @@ ("b" :> "U+0008") @@
    ("f" :> "\f") @@ ("n" :> "\n") @@ ("r" :> "\r") @@ ("t" :> "\t")

\* The characters of a string of this language, one element each.
Characters(text) == [i \in 1..Len(text) |-> CharAt(text, i)]

JsonFail == [ok |-> FALSE, rest |-> "", value |-> <<>>, keys |-> {},
             forbidden |-> FALSE]

\* A parsed value: what follows it in the text, the characters of the string
\* it is (for a key), the keys it has (for an object) and whether
\* secure-json-parse refuses it.
JsonOk(rest, value, keys, forbidden) ==
    [ok |-> TRUE, rest |-> rest, value |-> value, keys |-> keys,
     forbidden |-> forbidden]

RECURSIVE SkipWhiteSpace(_)
SkipWhiteSpace(text) ==
    IF text # "" /\ Head(text) \in JsonWhiteSpace
    THEN SkipWhiteSpace(Tail(text)) ELSE text

RECURSIVE SkipDigits(_)
SkipDigits(text) ==
    IF text # "" /\ Head(text) \in DecimalDigits
    THEN SkipDigits(Tail(text)) ELSE text

\* number: -? (0 | [1-9][0-9]*) (. [0-9]+)? ([eE] [+-]? [0-9]+)?
JsonNumber(text) ==
    LET unsigned == IF StartsWith(text, "-") THEN Tail(text) ELSE text
        int == IF unsigned = "" \/ Head(unsigned) \notin DecimalDigits
               THEN JsonFail
               ELSE IF Head(unsigned) = "0"
               THEN JsonOk(Tail(unsigned), <<>>, {}, FALSE)
               ELSE JsonOk(SkipDigits(unsigned), <<>>, {}, FALSE)
        frac == IF int.ok /\ StartsWith(int.rest, ".")
                THEN LET d == SkipDigits(Tail(int.rest))
                     IN  IF d = Tail(int.rest) THEN JsonFail
                         ELSE JsonOk(d, <<>>, {}, FALSE)
                ELSE int
    IN  IF frac.ok /\ frac.rest # "" /\ Head(frac.rest) \in {"e", "E"}
        THEN LET s == Tail(frac.rest)
                 u == IF s # "" /\ Head(s) \in {"+", "-"} THEN Tail(s) ELSE s
                 d == SkipDigits(u)
             IN  IF d = u THEN JsonFail ELSE JsonOk(d, <<>>, {}, FALSE)
        ELSE frac

\* The characters of a string after its opening quote, up to the closing
\* one: no control character, and \ only as the start of an escape.  acc is
\* the sequence of the characters read so far.
RECURSIVE JsonChars(_, _)
JsonChars(text, acc) ==
    IF text = "" THEN JsonFail
    ELSE IF Head(text) = "\"" THEN JsonOk(Tail(text), acc, {}, FALSE)
    ELSE IF Head(text) \in {"\t", "\n", "\r", "\f"} THEN JsonFail
    ELSE IF Head(text) # "\\" THEN JsonChars(Tail(text), Append(acc, Head(text)))
    ELSE LET t == Tail(text)
         IN  IF t = "" THEN JsonFail
             ELSE IF Head(t) \in DOMAIN JsonEscapes
             THEN JsonChars(Tail(t), Append(acc, JsonEscapes[Head(t)]))
             ELSE IF /\ Head(t) = "u"
                     /\ Len(t) >= 5
                     /\ \A i \in 2..5 : CharAt(t, i) \in DOMAIN HexDigits
             THEN JsonChars(Drop(t, 5),
                            Append(acc, fromCharCode(
                                HexDigits[CharAt(t, 2)] * 4096
                                + HexDigits[CharAt(t, 3)] * 256
                                + HexDigits[CharAt(t, 4)] * 16
                                + HexDigits[CharAt(t, 5)])))
             ELSE JsonFail

\* What secure-json-parse refuses in an object: an own key __proto__, and a
\* key constructor whose value is an object with an own key prototype; and
\* any value of the object that it refuses.
ForbiddenObject(members) ==
    \/ Characters("__proto__") \in DOMAIN members
    \/ /\ Characters("constructor") \in DOMAIN members
       /\ Characters("prototype") \in members[Characters("constructor")].keys
    \/ \E k \in DOMAIN members : members[k].forbidden

RECURSIVE JsonValue(_), JsonMembers(_, _), JsonElements(_, _)
JsonValue(text) ==
    LET t == SkipWhiteSpace(text)
    IN  IF t = "" THEN JsonFail
        ELSE IF Head(t) = "{"
        THEN LET u == SkipWhiteSpace(Tail(t))
             IN  IF StartsWith(u, "}") THEN JsonOk(Tail(u), <<>>, {}, FALSE)
                 ELSE JsonMembers(u, <<>>)
        ELSE IF Head(t) = "["
        THEN LET u == SkipWhiteSpace(Tail(t))
             IN  IF StartsWith(u, "]") THEN JsonOk(Tail(u), <<>>, {}, FALSE)
                 ELSE JsonElements(u, FALSE)
        ELSE IF Head(t) = "\"" THEN JsonChars(Tail(t), <<>>)
        ELSE IF StartsWith(t, "true") THEN JsonOk(Drop(t, 4), <<>>, {}, FALSE)
        ELSE IF StartsWith(t, "false") THEN JsonOk(Drop(t, 5), <<>>, {}, FALSE)
        ELSE IF StartsWith(t, "null") THEN JsonOk(Drop(t, 4), <<>>, {}, FALSE)
        ELSE JsonNumber(t)

\* The members of an object from a key on, by the characters of their keys;
\* a later member replaces an earlier one with the same key.
JsonMembers(text, members) ==
    IF ~StartsWith(text, "\"") THEN JsonFail
    ELSE LET k == JsonChars(Tail(text), <<>>)
             c == SkipWhiteSpace(k.rest)
             v == JsonValue(Tail(c))
             a == SkipWhiteSpace(v.rest)
             all == (k.value :> [keys |-> v.keys, forbidden |-> v.forbidden])
                        @@ members
         IN  IF ~k.ok \/ ~StartsWith(c, ":") THEN JsonFail
             ELSE IF ~v.ok THEN JsonFail
             ELSE IF StartsWith(a, ",")
             THEN JsonMembers(SkipWhiteSpace(Tail(a)), all)
             ELSE IF StartsWith(a, "}")
             THEN JsonOk(Tail(a), <<>>, DOMAIN all, ForbiddenObject(all))
             ELSE JsonFail

\* The elements of an array from a value on.
JsonElements(text, forbidden) ==
    LET v == JsonValue(text)
        a == SkipWhiteSpace(v.rest)
    IN  IF ~v.ok THEN JsonFail
        ELSE IF StartsWith(a, ",")
        THEN JsonElements(Tail(a), forbidden \/ v.forbidden)
        ELSE IF StartsWith(a, "]")
        THEN JsonOk(Tail(a), <<>>, {}, forbidden \/ v.forbidden)
        ELSE JsonFail

\* secure-json-parse on the whole text: JSON.parse accepts it and nothing in
\* it is refused.
ValidJson(text) ==
    LET v == JsonValue(text)
    IN  v.ok /\ SkipWhiteSpace(v.rest) = "" /\ ~v.forbidden

---------------------------------------------------------------------------
(* Body parsing and serialization *)

\* NeedsParsing with the parser run for GET and HEAD requests too.
NeedsParsingEveryMethod(req) ==
    ~(req.contentType = "none" /\ req.body = "")

\* handleRequest: a GET or HEAD request goes straight to the handler, and so
\* do any other request with neither a content-type nor a body and an
\* OPTIONS request with a content-type and no body; every other request goes
\* through the content-type parser first.
NeedsParsing(req) ==
    /\ req.method \notin BodylessMethods
    /\ ~(req.contentType = "none" /\ req.body = "")
    /\ ~(req.method = "OPTIONS" /\ req.body = "")

LowerCase ==
    ("A" :> "a") @@ ("B" :> "b") @@ ("C" :> "c") @@ ("D" :> "d") @@
    ("E" :> "e") @@ ("F" :> "f") @@ ("G" :> "g") @@ ("H" :> "h") @@
    ("I" :> "i") @@ ("J" :> "j") @@ ("K" :> "k") @@ ("L" :> "l") @@
    ("M" :> "m") @@ ("N" :> "n") @@ ("O" :> "o") @@ ("P" :> "p") @@
    ("Q" :> "q") @@ ("R" :> "r") @@ ("S" :> "s") @@ ("T" :> "t") @@
    ("U" :> "u") @@ ("V" :> "v") @@ ("W" :> "w") @@ ("X" :> "x") @@
    ("Y" :> "y") @@ ("Z" :> "z")

\* String.prototype.toLowerCase, for the letters A to Z.
RECURSIVE toLowerCase(_)
toLowerCase(text) ==
    IF text = "" THEN ""
    ELSE (IF Head(text) \in DOMAIN LowerCase THEN LowerCase[Head(text)]
          ELSE Head(text)) \o toLowerCase(Tail(text))

\* ContentTypeParser.getParser: the parser whose media type the content type
\* is, in any case of letters, alone or followed by ';' or a space and
\* whatever parameters; none for any other content type and for a request
\* without the header.
getParser(contentType) ==
    LET given == toLowerCase(contentType)
        Is(mediaType) ==
            /\ StartsWith(given, mediaType)
            /\ \/ Len(given) = Len(mediaType)
               \/ CharAt(given, Len(mediaType) + 1) \in {";", " "}
    IN  IF contentType = "none" THEN "none"
        ELSE IF Is("application/json") THEN "json"
        ELSE IF Is("text/plain") THEN "text"
        ELSE "none"

\* Fastify's content-type parsers: one for application/json, which rejects an
\* empty body and a body that is not JSON, one for text/plain, which takes
\* any body, and none for a body without content-type.
contentTypeParser(req) ==
    IF getParser(req.contentType) = "text"
    THEN [ok |-> TRUE, parser |-> "text", error |-> NoError]
    ELSE IF getParser(req.contentType) = "none"
    THEN [ok |-> FALSE, parser |-> "none",
          error |-> FST_ERR_CTP_INVALID_MEDIA_TYPE(req.contentType)]
    ELSE IF req.body = ""
    THEN [ok |-> FALSE, parser |-> "json",
          error |-> FST_ERR_CTP_EMPTY_JSON_BODY]
    ELSE IF ValidJson(req.body)
    THEN [ok |-> TRUE, parser |-> "json", error |-> NoError]
    ELSE [ok |-> FALSE, parser |-> "json",
          error |-> FST_ERR_CTP_INVALID_JSON_BODY]

\* The verdict of a request that goes to its handler without parsing.
NotParsed == [ok |-> TRUE, parser |-> "none", error |-> NoError]

SerializationError == [name |-> "Error", message |-> "status is required!"]

\* The serializer compiled from the route's response schema for status 200:
\* status is required, its value is the schema's constant 'ok', and no other
\* property is written.  A route without a schema writes the payload as is.
serialize(schema, statusCode, payload) ==
    IF schema = "HealthResponse" /\ statusCode = 200
    THEN IF "status" \in DOMAIN payload
         THEN [ok |-> TRUE, body |-> [status |-> "ok"]]
         ELSE [ok |-> FALSE, body |-> NoBody]
    ELSE [ok |-> TRUE, body |-> payload]

---------------------------------------------------------------------------
(* Exchanges *)

\* The exchange of a request that has just arrived: Fastify has found its
\* route, made its reply and, with logging on, logged 'incoming request'.
\* parse is what the content-type parser makes of the request's body once it
\* has been read.
newExchange(fastify, req) ==
    [req |-> req, request |-> req,
     route |-> findRoute(fastify.routes, req.method, req.path),
     parse |-> IF NeedsParsing(req) THEN contentTypeParser(req)
               ELSE NotParsed,
     stage |-> "parsing", reply |-> NewReply, promise |-> NoPromise,
     calls |-> <<>>,
     errorHandledBy |-> "none",
     logged |-> IF fastify.logger THEN <<"incoming request">> ELSE <<>>]

\* The response leaves: a HEAD response has no body, and with logging on
\* Fastify logs 'request completed'.
respond(fastify, x, reply) ==
    [x EXCEPT !.reply = IF x.req.method = "HEAD"
                        THEN [reply EXCEPT !.body = NoBody] ELSE reply,
              !.logged = IF fastify.logger THEN Append(@, "request completed")
                         ELSE @]

\* reply.send(error): through handleError to the response.  The exchange
\* keeps which handler produced the response: the plugin's, or Fastify's own
\* when the instance has no other or the plugin's handler threw.
sendError(fastify, x, error) ==
    LET h == handleError(fastify, error, x.request, x.reply)
        y == [x EXCEPT !.stage = "done",
                       !.errorHandledBy = h.handledBy,
                       !.logged = @ \o h.logged]
    IN  respond(fastify, y, h.reply)

\* reply.send(payload) of a handler's resolved value.
sendPayload(fastify, x, payload) ==
    LET s == serialize(x.route.schema, x.reply.statusCode, payload)
    IN  IF s.ok
        THEN [respond(fastify, x, replySend(x.reply, s.body)) EXCEPT !.stage = "done"]
        ELSE sendError(fastify, x, SerializationError)

\* The route's handler runs.  A handler that sent the reply itself has its
\* response leave at once; an async handler leaves a promise to settle.
invoke(fastify, x) ==
    LET name == x.route.handler
        h == CASE name = "healthController" ->
                    healthController(x.request, x.reply)
               [] name = "methodNotAllowedHandler" ->
                    methodNotAllowedHandler(x.request, x.reply)
               [] name = "testErrorHandler" ->
                    testErrorHandler(x.request, x.reply, x.route.throws)
               [] OTHER -> basic404(x.request, x.reply)
        y == [x EXCEPT !.request = h.request, !.reply = h.reply,
                       !.promise = h.promise, !.calls = Append(@, name),
                       !.logged = IF fastify.logger /\ name = "basic404"
                                  THEN Append(@, "Route not found") ELSE @,
                       !.stage = IF h.promise = NoPromise THEN "done" ELSE "pending"]
    IN  IF h.reply.sent THEN respond(fastify, y, h.reply) ELSE y

\* handleRequest for a request that has just arrived.
handleRequest(fastify, req) ==
    LET x == newExchange(fastify, req)
    IN  IF NeedsParsing(req) THEN x ELSE invoke(fastify, x)

\* ContentTypeParser.run: the parser's verdict, then the handler or the
\* error.  A request that matched no route (request.is404) and has no parser
\* for its content type goes to the 404 handler.
parsed(fastify, x) ==
    LET p == x.parse
    IN  IF p.ok \/ (p.parser = "none" /\ x.route.handler = "basic404")
        THEN invoke(fastify, x)
        ELSE sendError(fastify, x, p.error)

\* wrapThenable: the handler's promise settles.  Nothing is sent when the
\* handler has sent the reply itself.
settled(fastify, x) ==
    IF x.reply.sent THEN [x EXCEPT !.stage = "done"]
    ELSE IF x.promise.state = "fulfilled"
    THEN sendPayload(fastify, x, x.promise.value)
    ELSE sendError(fastify, x, x.promise.reason)

---------------------------------------------------------------------------
(* Actions *)

InFlight == BagToSet(inflight)

Only(x) == SetToBag({x})

\* A request arrives while fewer than limit exchanges are in flight.
Receive(req, limit) ==
    /\ BagCardinality(inflight) < limit
    /\ inflight' = inflight (+) Only(handleRequest(server, req))
    /\ UNCHANGED <<server, buildOpts, mainVars, healthVars>>

\* The body of a request has been read.
ParseBody(x) ==
    /\ x.stage = "parsing"
    /\ inflight' = (inflight (-) Only(x)) (+) Only(parsed(server, x))
    /\ UNCHANGED <<server, buildOpts, mainVars, healthVars>>

\* The promise of a handler settles.
Settle(x) ==
    /\ x.stage = "pending"
    /\ inflight' = (inflight (-) Only(x)) (+) Only(settled(server, x))
    /\ UNCHANGED <<server, buildOpts, mainVars, healthVars>>

\* The client has its response; the exchange is over.
Retire(x) ==
    /\ x.stage = "done"
    /\ inflight' = inflight (-) Only(x)
    /\ UNCHANGED <<server, buildOpts, mainVars, healthVars>>

---------------------------------------------------------------------------
(* Configuration: environment.ts.  A JavaScript string is the sequence of   *)
(* its characters, so that parseInt reads it character by character; a      *)
(* JavaScript number is as in the section on JavaScript values.             *)

\* The literals '3000', 'production' and '0.0.0.0'.
DefaultPort == <<"3", "0", "0", "0">>

DefaultNodeEnv == <<"p", "r", "o", "d", "u", "c", "t", "i", "o", "n">>

DefaultHost == <<"0", ".", "0", ".", "0", ".", "0">>

\* Values of PORT: empty, not a number, zero, negative, above 65535, valid
\* ports, digits followed by a letter, leading blank.
PortValues ==
    { <<>>,
      <<"a", "b", "c">>,
      <<"0">>,
      <<"-", "1">>,
      <<"7", "0", "0", "0", "0">>,
      <<"8", "0", "8", "0">>,
      <<"6", "5", "5", "3", "5">>,
      <<"8", "0", "a">>,
      <<" ", "4", "4", "3">> }

HostValues == { <<>>, <<"1", "2", "7", ".", "0", ".", "0", ".", "1">> }

NodeEnvValues == { <<>>, <<"t", "e", "s", "t">> }

\* A variable is unset (<<>>) or set to one value (<<v>>).
Optional(values) == {<<>>} \cup {<<v>> : v \in values}

Variable(name, setting) ==
    IF setting = <<>> THEN EmptyObject ELSE name :> setting[1]

Environments ==
    { Variable("PORT", p) @@ Variable("HOST", h) @@ Variable("NODE_ENV", n) :
        p \in Optional(PortValues),
        h \in Optional(HostValues),
        n \in Optional(NodeEnvValues) }

\* process.env[name] || fallback: an unset variable is undefined and a
\* variable set to '' is the empty string, both falsy.
EnvOr(environment, name, fallback) ==
    IF name \in DOMAIN environment /\ environment[name] # <<>>
    THEN environment[name]
    ELSE fallback

\* ECMAScript's white space and line terminators, which parseInt skips.  A
\* character that has no notation in a string of this language is written
\* U+ and its four hexadecimal digits.
WhiteSpace ==
    {"\t", "\n", "U+000B", "\f", "\r", " ", "U+00A0", "U+1680",
     "U+2000", "U+2001", "U+2002", "U+2003", "U+2004", "U+2005", "U+2006",
     "U+2007", "U+2008", "U+2009", "U+200A", "U+2028", "U+2029", "U+202F",
     "U+205F", "U+3000", "U+FEFF"}

Digits ==
    ("0" :> 0) @@ ("1" :> 1) @@ ("2" :> 2) @@ ("3" :> 3) @@ ("4" :> 4) @@
    ("5" :> 5) @@ ("6" :> 6) @@ ("7" :> 7) @@ ("8" :> 8) @@ ("9" :> 9) @@
    ("a" :> 10) @@ ("b" :> 11) @@ ("c" :> 12) @@ ("d" :> 13) @@
    ("e" :> 14) @@ ("f" :> 15) @@
    ("A" :> 10) @@ ("B" :> 11) @@ ("C" :> 12) @@ ("D" :> 13) @@
    ("E" :> 14) @@ ("F" :> 15)

IsDigit(char, radix) == char \in DOMAIN Digits /\ Digits[char] < radix

RECURSIVE TrimStart(_)
TrimStart(string) ==
    IF string # <<>> /\ Head(string) \in WhiteSpace
    THEN TrimStart(Tail(string))
    ELSE string

\* The longest prefix of string made of digits of the radix.
RECURSIVE DigitPrefix(_, _)
DigitPrefix(string, radix) ==
    IF string # <<>> /\ IsDigit(Head(string), radix)
    THEN <<Head(string)>> \o DigitPrefix(Tail(string), radix)
    ELSE <<>>

RECURSIVE MathematicalValue(_, _, _)
MathematicalValue(digits, radix, acc) ==
    IF digits = <<>> THEN acc
    ELSE MathematicalValue(Tail(digits), radix,
                           acc * radix + Digits[Head(digits)])

\* parseInt(string, radix) for an explicit radix from 2 to 16: leading white
\* space is skipped, one sign is read, for radix 16 a prefix 0x or 0X is
\* dropped, then digits are read up to the first other character; no digit
\* at all gives NaN.  Values are integers up to 2147483647.
parseInt(string, radix) ==
    LET trimmed == TrimStart(string)
        sign == IF trimmed # <<>> /\ Head(trimmed) = "-" THEN -1 ELSE 1
        signless == IF trimmed # <<>> /\ Head(trimmed) \in {"+", "-"}
                    THEN Tail(trimmed) ELSE trimmed
        unsigned == IF /\ radix = 16
                       /\ Len(signless) >= 2
                       /\ signless[1] = "0"
                       /\ signless[2] \in {"x", "X"}
                    THEN Tail(Tail(signless)) ELSE signless
        digits == DigitPrefix(unsigned, radix)
    IN  IF digits = <<>> THEN NaN
        ELSE Number(sign * MathematicalValue(digits, radix, 0))

\* config that does not read PORT: the port is always the default.
configIgnoresPort(environment) ==
    [port |-> parseInt(DefaultPort, 10),
     nodeEnv |-> EnvOr(environment, "NODE_ENV", DefaultNodeEnv),
     host |-> EnvOr(environment, "HOST", DefaultHost)]

\* The config object, evaluated once when environment.ts is imported.
config(environment) ==
    [port |-> parseInt(EnvOr(environment, "PORT", DefaultPort), 10),
     nodeEnv |-> EnvOr(environment, "NODE_ENV", DefaultNodeEnv),
     host |-> EnvOr(environment, "HOST", DefaultHost)]

---------------------------------------------------------------------------
(* The process: main.ts.  start() awaits buildServer(), awaits             *)
(* server.listen(), then installs one handler for SIGINT and one for       *)
(* SIGTERM; a rejection of either await is caught, logged and followed by  *)
(* process.exit(1).                                                        *)

\* Largest number of signals delivered to the installed handlers.
MaxSignals == 2

\* Largest number of exchanges the listening server has in flight at the same
\* time.
MaxServing == 2

\* Largest number of requests that arrive on connections kept alive after
\* server.close() was called.
MaxRefused == 1

signals == {"SIGINT", "SIGTERM"}

Running == [state |-> "running"]

Exited(code) == [state |-> "exited", code |-> code]

\* Ended by a signal whose default action was in force: no exit code.
Killed(signal) == [state |-> "killed", signal |-> signal]

NoServer == [logger |-> FALSE, errorHandler |-> "none", routes |-> {}]

NoAddress == [listening |-> FALSE]

Address(host, port) == [listening |-> TRUE, host |-> host, port |-> port]

\* The address after listen({ port: 0 }): the port is one the system chose
\* among its free ports; which one, the program does not determine.
SystemChosenPort(host) ==
    [listening |-> TRUE, host |-> host, portChosenBy |-> "system"]

\* The process when node starts evaluating main.ts.
NewProcess ==
    [pc |-> "import",
     config |-> EmptyObject,
     handlers |-> {},
     awaiting |-> 0,
     closeCalls |-> 0,
     closed |-> FALSE,
     refused |-> 0,
     address |-> NoAddress,
     stdout |-> <<>>,
     stderr |-> <<>>,
     exit |-> Running]

\* The specifications of the request path alone run no main.ts.
NoProcess ==
    /\ env = EmptyObject
    /\ proc = [NewProcess EXCEPT !.pc = "none"]

\* A plugin that does not load in time makes register, and so buildServer,
\* reject.
FST_ERR_PLUGIN_TIMEOUT ==
    [name |-> "FastifyError", code |-> "FST_ERR_PLUGIN_TIMEOUT"]

ERR_SOCKET_BAD_PORT == [name |-> "RangeError", code |-> "ERR_SOCKET_BAD_PORT"]

ListenErrors ==
    { [name |-> "Error", code |-> "EADDRINUSE"],
      [name |-> "Error", code |-> "EACCES"] }

\* await buildServer(): the built instance, or a rejection.
buildServerOutcomes ==
    {Fulfilled(buildServer(buildOpts))}
        \cup {Rejected(FST_ERR_PLUGIN_TIMEOUT)}

\* await server.listen({ port, host }): node rejects a port that is not an
\* integer from 0 to 65535, binds a port the system chooses for 0 and the
\* port given otherwise, or fails (in use or none free, not permitted).
listen(fastify, options) ==
    IF options.port.isNaN THEN {Rejected(ERR_SOCKET_BAD_PORT)}
    ELSE IF options.port.value \notin 0..65535
    THEN {Rejected(ERR_SOCKET_BAD_PORT)}
    ELSE IF options.port.value = 0
    THEN {Fulfilled(SystemChosenPort(options.host))}
            \cup {Rejected(e) : e \in ListenErrors}
    ELSE {Fulfilled(Address(options.host, options.port.value))}
            \cup {Rejected(e) : e \in ListenErrors}

\* A catch block that exits with code 0.
catchExitsWithZero(process, err) ==
    [process EXCEPT !.stderr = Append(@, <<"Error starting server:", err>>),
                    !.pc = "exited",
                    !.exit = Exited(0)]

\* catch (err) { console.error('Error starting server:', err);
\*               process.exit(1); }
catch(process, err) ==
    [process EXCEPT !.stderr = Append(@, <<"Error starting server:", err>>),
                    !.pc = "exited",
                    !.exit = Exited(1)]

\* A handler that exits without closing the server.
signalHandlerExitsAtOnce(process, signal) ==
    [process EXCEPT
        !.stdout = Append(@, <<"Received", signal,
                               "closing server gracefully...">>),
        !.pc = "exited",
        !.exit = Exited(0)]

\* A handler whose second server.close() rejects: the rejection of the
\* async handler is unhandled and node ends the process with code 1.
signalHandlerSecondCloseRejects(process, signal) ==
    IF process.closeCalls > 0
    THEN [process EXCEPT
            !.stdout = Append(@, <<"Received", signal,
                                   "closing server gracefully...">>),
            !.closeCalls = @ + 1,
            !.pc = "exited",
            !.exit = Exited(1)]
    ELSE [process EXCEPT
            !.stdout = Append(@, <<"Received", signal,
                                   "closing server gracefully...">>),
            !.closeCalls = @ + 1,
            !.awaiting = @ + 1]

\* The handler of one signal up to its await: it logs and calls
\* server.close(); process.exit(0) follows when close() has resolved.
signalHandler(process, signal) ==
    [process EXCEPT
        !.stdout = Append(@, <<"Received", signal,
                               "closing server gracefully...">>),
        !.closeCalls = @ + 1,
        !.awaiting = @ + 1]

\* environment.ts is imported: config is evaluated.
ImportConfig ==
    /\ proc.exit = Running
    /\ proc.pc = "import"
    /\ proc' = [proc EXCEPT !.config = config(env), !.pc = "buildServer"]
    /\ UNCHANGED <<env, webVars, healthVars>>

\* await buildServer() settles.
BuildServerSettles ==
    /\ proc.exit = Running
    /\ proc.pc = "buildServer"
    /\ \E outcome \in buildServerOutcomes :
          IF outcome.state = "fulfilled"
          THEN /\ server' = outcome.value
               /\ proc' = [proc EXCEPT !.pc = "listen"]
          ELSE /\ server' = server
               /\ proc' = catch(proc, outcome.reason)
    /\ UNCHANGED <<env, inflight, buildOpts, healthVars>>

\* start() with process.on called for SIGINT alone.
ListenSettlesInstallsSigintOnly ==
    /\ proc.exit = Running
    /\ proc.pc = "listen"
    /\ \E outcome \in listen(server, [port |-> proc.config.port,
                                      host |-> proc.config.host]) :
          IF outcome.state = "fulfilled"
          THEN proc' = [proc EXCEPT !.address = outcome.value,
                                    !.handlers = {"SIGINT"},
                                    !.pc = "listening"]
          ELSE proc' = catch(proc, outcome.reason)
    /\ UNCHANGED <<env, webVars, healthVars>>

\* await server.listen(...) settles; when it resolves, the rest of start()
\* runs in the same turn of the event loop and installs both handlers.
ListenSettles ==
    /\ proc.exit = Running
    /\ proc.pc = "listen"
    /\ \E outcome \in listen(server, [port |-> proc.config.port,
                                      host |-> proc.config.host]) :
          IF outcome.state = "fulfilled"
          THEN proc' = [proc EXCEPT !.address = outcome.value,
                                    !.handlers = signals,
                                    !.pc = "listening"]
          ELSE proc' = catch(proc, outcome.reason)
    /\ UNCHANGED <<env, webVars, healthVars>>

\* A signal reaches the process: its handler runs up to await
\* server.close() when one is installed, and the default action ends the
\* process otherwise.
Signal(signal) ==
    /\ proc.exit = Running
    /\ IF signal \in proc.handlers
       THEN /\ proc.awaiting < MaxSignals
            /\ proc' = signalHandler(proc, signal)
       ELSE proc' = [proc EXCEPT !.pc = "exited", !.exit = Killed(signal)]
    /\ UNCHANGED <<env, webVars, healthVars>>

\* server.close() resolves once no exchange is in flight; the handler
\* awaiting it continues in the same turn with process.exit(0).
CloseResolves ==
    /\ proc.exit = Running
    /\ proc.closeCalls > 0
    /\ proc.awaiting > 0
    /\ inflight = EmptyBag
    /\ proc' = [proc EXCEPT !.closed = TRUE,
                            !.address = NoAddress,
                            !.pc = "exited",
                            !.exit = Exited(0)]
    /\ UNCHANGED <<env, webVars, healthVars>>

\* The requests sent to the process of main.ts: GET /status, and POST /status
\* with a JSON body.
ServedRequests ==
    { [method |-> "GET", path |-> "/status", query |-> "",
       contentType |-> "none", body |-> ""],
      [method |-> "POST", path |-> "/status", query |-> "",
       contentType |-> "application/json", body |-> "{\"data\":\"test\"}"] }

\* The listening server accepts a request until close() is called.
Accept(req) ==
    /\ proc.exit = Running
    /\ proc.pc = "listening"
    /\ proc.closeCalls = 0
    /\ Receive(req, MaxServing)

\* What routeHandler writes while the server is closing.
ServiceUnavailable ==
    [statusCode |-> 503, sent |-> TRUE,
     body |-> [error |-> "Service Unavailable",
               message |-> "Service Unavailable",
               statusCode |-> Number(503)]]

\* The exchange of a request that reached routeHandler after close() was
\* called: answered 503 at once, before any parsing and without a handler.
refusedExchange(fastify, req) ==
    [newExchange(fastify, req) EXCEPT
        !.stage = "done",
        !.reply = IF req.method = "HEAD"
                  THEN [ServiceUnavailable EXCEPT !.body = NoBody]
                  ELSE ServiceUnavailable,
        !.logged = IF fastify.logger
                   THEN <<"request aborted - refusing to accept new requests as server is closing">>
                   ELSE <<>>]

\* After close() was called a request can still arrive on a connection that
\* was kept alive; Fastify answers it 503 and closes the connection.
Refuse(req) ==
    /\ proc.exit = Running
    /\ proc.pc = "listening"
    /\ proc.closeCalls > 0
    /\ proc.refused < MaxRefused
    /\ BagCardinality(inflight) < MaxServing
    /\ inflight' = inflight (+) Only(refusedExchange(server, req))
    /\ proc' = [proc EXCEPT !.refused = @ + 1]
    /\ UNCHANGED <<env, server, buildOpts, healthVars>>

\* No health aggregator runs beside the specifications above.
NoHealthService ==
    /\ clock = 0
    /\ registry = <<>>
    /\ cache = <<>>
    /\ flight = <<>>
    /\ callers = <<>>
    /\ invoked = <<>>

---------------------------------------------------------------------------
(* The health-check aggregator of the specification (sections 3 to 6):     *)
(* Probe, Probe Registry, Aggregator, Result Cache and Health Service.     *)
(* The repository holds no implementation of it; the definitions below     *)
(* follow the specification's contracts.  Time is the Clock's integer      *)
(* reading.                                                                 *)

\* Latest reading of the Clock.
MaxTime == 3

\* Largest number of Evaluate calls.
MaxCallers == 3

\* Largest number of Register calls at startup.
MaxProbes == 2

\* Configuration: cacheTTL and aggregateDeadline, in clock units.
cacheTTL == 2

aggregateDeadline == 2

Kinds == {"Liveness", "Readiness"}

ErrProbeTimeout == "ErrProbeTimeout"

ErrAggregateDeadline == "ErrAggregateDeadline"

ErrDuplicateProbeName == "ErrDuplicateProbeName"

ErrInvalidTimeout == "ErrInvalidTimeout"

ErrCheckFailed == "connection refused"

NoErr == "nil"

Probe(name, kind, timeout) == [Name |-> name, Kind |-> kind, Timeout |-> timeout]

\* The probes startup code may register: one with a timeout below the
\* aggregate deadline, one above it, one invalid.  No Liveness probe is
\* registered: Evaluate(Liveness) runs over the empty probe set.
ProbePool ==
    { Probe("db", "Readiness", 1),
      Probe("cache", "Readiness", 3),
      Probe("queue", "Readiness", 0) }

ProbeNames == {p.Name : p \in ProbePool}

\* Register(probe): the registry afterwards and the error, if any.
Register(probes, probe) ==
    IF probe.Name = "" \/ \E i \in DOMAIN probes : probes[i].Name = probe.Name
    THEN [registry |-> probes, err |-> ErrDuplicateProbeName]
    ELSE IF probe.Timeout <= 0
    THEN [registry |-> probes, err |-> ErrInvalidTimeout]
    ELSE [registry |-> Append(probes, probe), err |-> NoErr]

RECURSIVE RegisterAll(_, _)
RegisterAll(probes, calls) ==
    IF calls = <<>> THEN probes
    ELSE RegisterAll(Register(probes, Head(calls)).registry, Tail(calls))

\* The registries startup code can build with at most MaxProbes calls.
Registries ==
    { RegisterAll(<<>>, calls) :
        calls \in UNION {[1..n -> ProbePool] : n \in 0..MaxProbes} }

\* List(kind): the probes of that Kind, in registration order.
List(probes, kind) == SelectSeq(probes, LAMBDA p : p.Kind = kind)

\* What a Check can do before its Timeout: report healthy, or fail (an
\* error or a panic, captured at the Probe boundary).
CheckOutcomes ==
    { [Healthy |-> TRUE, Err |-> NoErr],
      [Healthy |-> FALSE, Err |-> ErrCheckFailed] }

ProbeResult(probe, healthy, err, duration, timedOut) ==
    [ProbeName |-> probe.Name, Healthy |-> healthy, Err |-> err,
     Duration |-> duration, TimedOut |-> timedOut]

\* Reduction in which the last result decides.
ReduceLastDecides(results) ==
    IF results # <<>> /\ ~results[Len(results)].Healthy
    THEN "Unhealthy" ELSE "Healthy"

\* Reduction rule: Unhealthy as soon as one result is not healthy.
RECURSIVE Reduce(_)
Reduce(results) ==
    IF results = <<>> THEN "Healthy"
    ELSE IF ~Head(results).Healthy THEN "Unhealthy"
    ELSE Reduce(Tail(results))

\* Results in the order in which the probes completed.
RECURSIVE collectInCompletionOrder(_, _, _)
collectInCompletionOrder(run, i, now) ==
    IF i > Len(run.probes) THEN <<>>
    ELSE <<IF i <= Len(run.done) THEN run.done[i].result
           ELSE ProbeResult(
                    run.probes[CHOOSE j \in DOMAIN run.probes :
                        /\ \A d \in DOMAIN run.done : run.done[d].index # j
                        /\ Cardinality({m \in 1..j :
                              \A d \in DOMAIN run.done : run.done[d].index # m})
                            = i - Len(run.done)],
                    FALSE, ErrAggregateDeadline, now - run.startedAt, TRUE)>>
         \o collectInCompletionOrder(run, i + 1, now)

\* Results in which a probe cut off by the deadline is recorded as an
\* individual probe timeout.
RECURSIVE collectAsProbeTimeout(_, _, _)
collectAsProbeTimeout(run, i, now) ==
    IF i > Len(run.probes) THEN <<>>
    ELSE LET arrived == {d \in DOMAIN run.done : run.done[d].index = i}
         IN  <<IF arrived # {}
               THEN run.done[CHOOSE d \in arrived : TRUE].result
               ELSE ProbeResult(run.probes[i], FALSE, ErrProbeTimeout,
                                now - run.startedAt, TRUE)>>
             \o collectAsProbeTimeout(run, i + 1, now)

\* The results of a run from probe i on, in registration order: the result
\* that arrived for the probe, or the aggregate-deadline result for a probe
\* still running.
RECURSIVE collect(_, _, _)
collect(run, i, now) ==
    IF i > Len(run.probes) THEN <<>>
    ELSE LET arrived == {d \in DOMAIN run.done : run.done[d].index = i}
         IN  <<IF arrived # {}
               THEN run.done[CHOOSE d \in arrived : TRUE].result
               ELSE ProbeResult(run.probes[i], FALSE, ErrAggregateDeadline,
                                now - run.startedAt, TRUE)>>
             \o collect(run, i + 1, now)

\* The Decision of a run that ends now.
Decide(run, now) ==
    LET results == collect(run, 1, now)
    IN  [Overall |-> Reduce(results), Kind |-> run.kind,
         Results |-> results, EvaluatedAt |-> run.startedAt]

NoEntry == [present |-> FALSE]

\* Get that never expires an entry.
CacheGetIgnoresExpiry(entries, kind, now) ==
    IF entries[kind].present
    THEN [ok |-> TRUE, decision |-> entries[kind].Decision]
    ELSE [ok |-> FALSE]

\* Get(kind): (decision, true) only for an entry with now < ExpiresAt.
CacheGet(entries, kind, now) ==
    IF entries[kind].present /\ now < entries[kind].ExpiresAt
    THEN [ok |-> TRUE, decision |-> entries[kind].Decision]
    ELSE [ok |-> FALSE]

\* Put(kind, decision, ttl): overwrites the entry of that Kind.
CachePut(entries, kind, decision, ttl, now) ==
    [entries EXCEPT ![kind] = [present |-> TRUE, Decision |-> decision,
                               ExpiresAt |-> now + ttl]]

\* A Health Service without single-flight: no run is ever joined.
runsToJoinNone(runs, kind) == {}

\* Single-flight: the runs of that Kind in flight, which a new caller joins.
runsToJoin(runs, kind) == {r \in runs : r.kind = kind}

Pending(run) ==
    {i \in DOMAIN run.probes : \A d \in DOMAIN run.done : run.done[d].index # i}

DeadlineReached(run, now) == now >= run.startedAt + aggregateDeadline

\* Evaluate(kind): a cache hit returns at once; a miss joins the run of that
\* Kind in flight or starts one, which invokes every listed probe.
Evaluate(kind) ==
    LET id == Len(callers) + 1
        hit == CacheGet(cache, kind, clock)
        joined == runsToJoin(flight, kind)
        waiting == {i \in DOMAIN callers :
                        callers[i].kind = kind /\ callers[i].state = "waiting"}
        probes == List(registry, kind)
    IN  /\ Len(callers) < MaxCallers
        /\ IF hit.ok
           THEN /\ callers' = Append(callers,
                        [kind |-> kind, state |-> "returned", hit |-> TRUE,
                         run |-> 0, concurrentWith |-> waiting,
                         decision |-> hit.decision])
                /\ UNCHANGED <<flight, invoked>>
           ELSE IF joined # {}
           THEN /\ callers' = Append(callers,
                        [kind |-> kind, state |-> "waiting", hit |-> FALSE,
                         run |-> (CHOOSE r \in joined : TRUE).id,
                         concurrentWith |-> waiting])
                /\ UNCHANGED <<flight, invoked>>
           ELSE /\ callers' = Append(callers,
                        [kind |-> kind, state |-> "waiting", hit |-> FALSE,
                         run |-> id, concurrentWith |-> waiting])
                /\ flight' = flight \cup
                        {[id |-> id, kind |-> kind, startedAt |-> clock,
                          probes |-> probes, done |-> <<>>]}
                /\ invoked' =
                        [n \in ProbeNames |->
                            IF \E i \in DOMAIN probes : probes[i].Name = n
                            THEN invoked[n] + 1 ELSE invoked[n]]
        /\ UNCHANGED <<clock, registry, cache, webVars, mainVars>>

\* The Check of probe i returns before the probe's Timeout.
ProbeReturns(run, i, outcome) ==
    /\ i \in Pending(run)
    /\ clock - run.startedAt < run.probes[i].Timeout
    /\ flight' = (flight \ {run}) \cup
            {[run EXCEPT !.done = Append(@,
                [index |-> i,
                 result |-> ProbeResult(run.probes[i], outcome.Healthy,
                                        outcome.Err, clock - run.startedAt,
                                        FALSE)])]}
    /\ UNCHANGED <<clock, registry, cache, callers, invoked,
                   webVars, mainVars>>

\* The Timeout of probe i elapses before its Check returns.
ProbeTimesOut(run, i) ==
    /\ i \in Pending(run)
    /\ clock - run.startedAt >= run.probes[i].Timeout
    /\ flight' = (flight \ {run}) \cup
            {[run EXCEPT !.done = Append(@,
                [index |-> i,
                 result |-> ProbeResult(run.probes[i], FALSE, ErrProbeTimeout,
                                        clock - run.startedAt, TRUE)])]}
    /\ UNCHANGED <<clock, registry, cache, callers, invoked,
                   webVars, mainVars>>

\* A run ends when every probe has a result or the aggregate deadline is
\* reached: the Decision is stored in the cache and returned to the
\* callers waiting on the run.
RunCompletes(run) ==
    LET decision == Decide(run, clock)
    IN  /\ Pending(run) = {} \/ DeadlineReached(run, clock)
        /\ cache' = CachePut(cache, run.kind, decision, cacheTTL, clock)
        /\ callers' =
                [i \in DOMAIN callers |->
                    IF callers[i].state = "waiting" /\ callers[i].run = run.id
                    THEN [callers[i] EXCEPT !.state = "returned"]
                            @@ [decision |-> decision]
                    ELSE callers[i]]
        /\ flight' = flight \ {run}
        /\ UNCHANGED <<clock, registry, invoked, webVars, mainVars>>

\* The clock advances when nothing is due: no probe at its Timeout, no run
\* complete or at its deadline.
Tick ==
    /\ clock < MaxTime
    /\ \A run \in flight :
          /\ Pending(run) # {}
          /\ ~DeadlineReached(run, clock)
          /\ \A i \in Pending(run) :
                clock - run.startedAt < run.probes[i].Timeout
    /\ clock' = clock + 1
    /\ UNCHANGED <<registry, cache, flight, callers, invoked,
                   webVars, mainVars>>

---------------------------------------------------------------------------
(* Specifications *)

\* main.ts calls buildServer(); the integration tests call
\* buildServer({ logger: false }).
BuildOptions == {EmptyObject, [logger |-> "false"]}

Init ==
    /\ buildOpts \in BuildOptions
    /\ server = buildServer(buildOpts)
    /\ inflight = EmptyBag
    /\ NoProcess
    /\ NoHealthService

Next ==
    \/ \E req \in Requests : Receive(req, MaxInFlight)
    \/ \E x \in InFlight : ParseBody(x)
    \/ \E x \in InFlight : Settle(x)
    \/ \E x \in InFlight : Retire(x)

Spec == Init /\ [][Next]_vars

\* The unit tests: an instance with the error handler plugin alone
\* (Fastify({ logger: false }), register(errorHandler)) or one made by
\* buildServer({ logger: false }), then a route whose handler throws, then
\* one injected request at a time.
pluginTestInstance(error) ==
    get(errorHandlerPlugin(Fastify([logger |-> "false"])),
        "/test-error", "testErrorHandler", "none", error)

buildServerTestInstance(error) ==
    get(buildServer([logger |-> "false"]),
        "/test-error", "testErrorHandler", "none", error)

TestInit ==
    /\ server \in {pluginTestInstance(e) : e \in ThrownErrors}
                    \cup {buildServerTestInstance(e) : e \in ThrownErrors}
    /\ buildOpts = [logger |-> "false"]
    /\ inflight = EmptyBag
    /\ NoProcess
    /\ NoHealthService

TestNext ==
    \/ \E req \in Requests : Receive(req, 1)
    \/ \E x \in InFlight : ParseBody(x)
    \/ \E x \in InFlight : Settle(x)
    \/ \E x \in InFlight : Retire(x)

TestSpec == TestInit /\ [][TestNext]_vars

\* The process node runs for main.ts, from the import of environment.ts
\* to its exit, with the requests it serves while listening.
MainInit ==
    /\ env \in Environments
    /\ proc = NewProcess
    /\ server = NoServer
    /\ buildOpts = EmptyObject
    /\ inflight = EmptyBag
    /\ NoHealthService

MainNext ==
    \/ ImportConfig
    \/ BuildServerSettles
    \/ ListenSettles
    \/ \E signal \in signals : Signal(signal)
    \/ CloseResolves
    \/ \E req \in ServedRequests : Accept(req)
    \/ \E req \in ServedRequests : Refuse(req)
    \/ \E x \in InFlight : ParseBody(x)
    \/ \E x \in InFlight : Settle(x)
    \/ \E x \in InFlight : Retire(x)

MainSpec == MainInit /\ [][MainNext]_vars

\* The event loop runs every continuation that is ready: an exchange
\* proceeds to its response and close() resolves when nothing is in flight.
MainLiveSpec ==
    /\ MainSpec
    /\ WF_vars(CloseResolves)
    /\ WF_vars(\E x \in InFlight : ParseBody(x))
    /\ WF_vars(\E x \in InFlight : Settle(x))
    /\ WF_vars(\E x \in InFlight : Retire(x))

\* The requests sent to the process of ServeSpec: GET /status plainly and
\* with a query string and a content-type header, POST /status with a JSON
\* body and with a body that is not JSON, and GET on a path without route.
LifecycleRequests ==
    { [method |-> "GET", path |-> "/status", query |-> "",
       contentType |-> "none", body |-> ""],
      [method |-> "GET", path |-> "/status", query |-> "foo=bar&baz=qux",
       contentType |-> "application/json", body |-> ""],
      [method |-> "POST", path |-> "/status", query |-> "",
       contentType |-> "application/json", body |-> "{\"data\":\"test\"}"],
      [method |-> "POST", path |-> "/status", query |-> "",
       contentType |-> "application/json", body |-> "{bad json"],
      [method |-> "GET", path |-> "/test-error", query |-> "",
       contentType |-> "none", body |-> ""] }

\* The process node runs for main.ts in an environment that sets none of its
\* variables, through the whole life of its server: built, listening,
\* closing after a signal, closed.
ServeInit ==
    /\ env = EmptyObject
    /\ proc = NewProcess
    /\ server = NoServer
    /\ buildOpts = EmptyObject
    /\ inflight = EmptyBag
    /\ NoHealthService

ServeNext ==
    \/ ImportConfig
    \/ BuildServerSettles
    \/ ListenSettles
    \/ \E signal \in signals : Signal(signal)
    \/ CloseResolves
    \/ \E req \in LifecycleRequests : Accept(req)
    \/ \E req \in LifecycleRequests : Refuse(req)
    \/ \E x \in InFlight : ParseBody(x)
    \/ \E x \in InFlight : Settle(x)
    \/ \E x \in InFlight : Retire(x)

ServeSpec == ServeInit /\ [][ServeNext]_vars

\* The Health Service after startup has registered its probes.
HealthInit ==
    /\ clock = 0
    /\ registry \in Registries
    /\ cache = [k \in Kinds |-> NoEntry]
    /\ flight = {}
    /\ callers = <<>>
    /\ invoked = [n \in ProbeNames |-> 0]
    /\ server = NoServer
    /\ buildOpts = EmptyObject
    /\ inflight = EmptyBag
    /\ NoProcess

HealthNext ==
    \/ \E kind \in Kinds : Evaluate(kind)
    \/ \E run \in flight : \E i \in DOMAIN run.probes :
            \E outcome \in CheckOutcomes : ProbeReturns(run, i, outcome)
    \/ \E run \in flight : \E i \in DOMAIN run.probes : ProbeTimesOut(run, i)
    \/ \E run \in flight : RunCompletes(run)
    \/ Tick

HealthSpec == HealthInit /\ [][HealthNext]_vars

\* The options a caller may pass to buildServer: none, options without a
\* logger key, and logger undefined, null, true or false.
CallerOptions ==
    { EmptyObject,
      [bodyLimit |-> "1048576"],
      [logger |-> "undefined"],
      [logger |-> "null"],
      [logger |-> "true"],
      [logger |-> "false"],
      [logger |-> "false", bodyLimit |-> "1048576"] }

\* await buildServer(opts) returns the instance.
BuildServerReturns ==
    /\ server = NoServer
    /\ server' = buildServer(buildOpts)
    /\ UNCHANGED <<inflight, buildOpts, mainVars, healthVars>>

\* server.inject(...) on the built instance, one request at a time.
Inject(req) ==
    /\ server # NoServer
    /\ Receive(req, 1)

\* A caller builds a server with options of its choice and injects
\* requests, as the tests of buildServer do.
BuildInit ==
    /\ buildOpts \in CallerOptions
    /\ server = NoServer
    /\ inflight = EmptyBag
    /\ NoProcess
    /\ NoHealthService

BuildNext ==
    \/ BuildServerReturns
    \/ \E req \in Requests : Inject(req)
    \/ \E x \in InFlight : ParseBody(x)
    \/ \E x \in InFlight : Settle(x)
    \/ \E x \in InFlight : Retire(x)

BuildSpec == BuildInit /\ [][BuildNext]_vars

---------------------------------------------------------------------------
(* Properties *)

Range(seq) == {seq[i] : i \in DOMAIN seq}

IsGetStatus(x) == x.req.method = "GET" /\ x.req.path = "/status"

OkReply == [statusCode |-> 200, sent |-> TRUE, body |-> [status |-> "ok"]]

MethodNotAllowedReply ==
    [statusCode |-> 405, sent |-> TRUE,
     body |-> [statusCode |-> Number(405), error |-> "Method Not Allowed",
               message |-> "GET method required for /status endpoint"]]

\* C1, as claimed: in every state of a built server, whatever else it has
\* answered, a completed GET /status has status 200 and the body
\* {status: 'ok'}, with no other property.
GetStatusAlwaysOk ==
    \A x \in InFlight :
        IsGetStatus(x) /\ x.stage = "done" => x.reply = OkReply

\* C1, amended: a completed GET /status that reached its handler has status
\* 200 and the body {status: 'ok'}, with no other property, whatever else
\* the server has answered; one that did not reach its handler arrived
\* after server.close() was called and has status 503 and the body
\* {error, message, statusCode} of 'Service Unavailable'.  Before close()
\* is called every GET /status reaches its handler.
GetStatusOkUnlessClosing ==
    \A x \in InFlight :
        IsGetStatus(x) /\ x.stage = "done" =>
            IF x.calls = <<>>
            THEN proc.closeCalls > 0 /\ x.reply = ServiceUnavailable
            ELSE x.calls = <<"healthController">> /\ x.reply = OkReply

\* C1 witness: after close() was called, a GET /status that arrived before
\* it is answered ok and one that arrived after it is answered 503.
GetStatusOkAndRefused ==
    /\ proc.closeCalls > 0
    /\ \E x \in InFlight : IsGetStatus(x) /\ x.reply = OkReply
    /\ \E y \in InFlight : IsGetStatus(y) /\ y.reply = ServiceUnavailable

\* C2, as claimed: every completed request to /status with a method other
\* than GET has status 405.
EveryOtherMethodGets405 ==
    \A x \in InFlight :
        x.req.path = "/status" /\ x.req.method # "GET" /\ x.stage = "done"
            => x.reply.statusCode = 405

\* C3, as claimed: a POST, PUT, DELETE or PATCH to /status never runs
\* healthController and, once completed, has the 405 status and body,
\* whatever its body and content type.
MutatingMethodsGet405Body ==
    \A x \in InFlight :
        x.req.path = "/status" /\ x.req.method \in {"POST", "PUT", "DELETE", "PATCH"}
            => /\ "healthController" \notin Range(x.calls)
               /\ x.stage = "done" => x.reply = MethodNotAllowedReply

\* C4: any two completed GET /status requests, whatever their query strings
\* and headers, have the same status and body: 200 and {status: 'ok'}.
ResponseIgnoresQueryAndHeaders ==
    \A x \in InFlight : \A y \in InFlight :
        /\ IsGetStatus(x) /\ x.stage = "done"
        /\ IsGetStatus(y) /\ y.stage = "done"
        => /\ x.reply.statusCode = y.reply.statusCode
           /\ x.reply.body = y.reply.body
           /\ x.reply.statusCode = 200
           /\ x.reply.body = [status |-> "ok"]

\* C4 witness: two completed GET /status requests that differ in query
\* string and in content-type header.
TwoGetStatusDifferInQueryAndHeaders ==
    \E x \in InFlight : \E y \in InFlight :
        /\ IsGetStatus(x) /\ x.stage = "done"
        /\ IsGetStatus(y) /\ y.stage = "done"
        /\ x.req.query # y.req.query
        /\ x.req.contentType # y.req.contentType
        /\ x.reply = y.reply

Unanswered(x) == IsGetStatus(x) /\ x.stage # "done"

AnsweredOk(x) == IsGetStatus(x) /\ x.stage = "done" /\ x.reply = OkReply

Failed(x) == IsGetStatus(x) /\ x.stage = "done" /\ x.reply # OkReply

\* How many GET /status exchanges of the bag are still being handled, and how
\* many have been answered 200 {status: 'ok'}.
NumUnanswered(bag) ==
    BagCardinality([x \in {y \in BagToSet(bag) : Unanswered(y)} |-> bag[x]])

NumAnsweredOk(bag) ==
    BagCardinality([x \in {y \in BagToSet(bag) : AnsweredOk(y)} |-> bag[x]])

\* C5: with several GET /status requests in flight, under every interleaving:
\* none ever fails, a request still being handled holds the resolved
\* {status: 'ok'} and no reply yet, and each request that stops being handled
\* is then among those answered 200 {status: 'ok'} (none is dropped).
ConcurrentGetStatusAllAnswered ==
    /\ [](\A x \in InFlight :
            /\ ~Failed(x)
            /\ Unanswered(x) =>
                 /\ x.stage = "pending"
                 /\ ~x.reply.sent
                 /\ x.promise = Fulfilled([status |-> "ok"]))
    /\ [][NumUnanswered(inflight') < NumUnanswered(inflight)
            => NumAnsweredOk(inflight') + NumUnanswered(inflight')
                 = NumAnsweredOk(inflight) + NumUnanswered(inflight)]_vars

\* C5 witness: one GET /status answered ok while another is still pending.
GetStatusAnsweredWhileAnotherPending ==
    \E x \in InFlight : \E y \in InFlight :
        AnsweredOk(x) /\ Unanswered(y) /\ y.stage = "pending"

\* C6, as claimed: a request to another path never runs healthController or
\* the 405 handler and, once completed, has status 404.
OtherPathsGet404 ==
    \A x \in InFlight :
        x.req.path # "/status"
            => /\ Range(x.calls) \cap {"healthController", "methodNotAllowedHandler"} = {}
               /\ x.stage = "done" => x.reply.statusCode = 404

\* C7, as claimed: on the server main.ts builds, buildServer(), a request to
\* /status leaves no log entry.
StatusRequestsNotLogged ==
    server = buildServer(EmptyObject)
        => \A x \in InFlight : x.req.path = "/status" => x.logged = <<>>

\* C8: every call of healthController, whatever the request, returns a
\* promise fulfilled with the HealthResponse {status: 'ok'}; none is rejected.
HealthControllerAlwaysResolves ==
    \A x \in InFlight :
        "healthController" \in Range(x.calls)
            => x.promise = Fulfilled([status |-> "ok"])

\* C8 witness: healthController has run for a request with a query string
\* and a content-type header.
HealthControllerRanOnVariedRequest ==
    \E x \in InFlight :
        /\ "healthController" \in Range(x.calls)
        /\ x.req.query # ""
        /\ x.req.contentType # "none"

\* C9: no step changes the server, and a call of healthController leaves the
\* request as it arrived and the reply as Fastify made it.
StatusEndpointIsStateless ==
    [][/\ server' = server
       /\ \A x \in BagToSet(inflight') :
            "healthController" \in Range(x.calls)
                => /\ x.request = x.req
                   /\ x.stage = "pending" => x.reply = NewReply]_vars

\* C9 witness: a /status request has gone through healthController and has
\* been answered.
StatusRequestServed ==
    \E x \in InFlight :
        /\ x.req.path = "/status"
        /\ "healthController" \in Range(x.calls)
        /\ x.stage = "done"

\* The error the handler of x's route has thrown.
Thrown(x) == x.route.throws

ThrewAndAnswered(x) == x.calls = <<"testErrorHandler">> /\ x.stage = "done"

\* C10, as claimed: the response to a thrown error has the error's
\* statusCode when the error carries one, and 500 when it carries none.
ErrorStatusIsErrorsStatusCode ==
    \A x \in InFlight :
        ThrewAndAnswered(x)
            => Number(x.reply.statusCode) =
                 IF "statusCode" \in DOMAIN Thrown(x) THEN Thrown(x).statusCode
                 ELSE Number(500)

\* C10, amended: the response has the error's statusCode when that is an
\* integer from 100 to 599, and 500 when the error carries none, carries 0,
\* or carries a number outside 100..599.
ErrorStatusIsValidStatusCodeOr500 ==
    \A x \in InFlight :
        ThrewAndAnswered(x) =>
            /\ (/\ "statusCode" \in DOMAIN Thrown(x)
                /\ IsInteger(Thrown(x).statusCode)
                /\ Thrown(x).statusCode.value \in 100..599)
                    => x.reply.statusCode = Thrown(x).statusCode.value
            /\ (\/ "statusCode" \notin DOMAIN Thrown(x)
                \/ Thrown(x).statusCode = Number(0)
                \/ Thrown(x).statusCode = NaN
                \/ ~AtLeast(Thrown(x).statusCode, 100)
                \/ ~AtMost(Thrown(x).statusCode, 599))
                    => x.reply.statusCode = 500

\* C10 witness: a route threw an error with statusCode 422 and the response
\* has status 422.
ThrownStatusCodeAnswered ==
    \E x \in InFlight :
        /\ ThrewAndAnswered(x)
        /\ "statusCode" \in DOMAIN Thrown(x)
        /\ Thrown(x).statusCode = Number(422)
        /\ x.reply.statusCode = 422

---------------------------------------------------------------------------
(* Health aggregator properties *)

Returned == {i \in DOMAIN callers : callers[i].state = "returned"}

\* The distinct runs the cache misses of a Kind have waited on.
RunsOf(kind) ==
    {callers[i].run : i \in {j \in DOMAIN callers :
                                callers[j].kind = kind /\ ~callers[j].hit}}

\* C14: at most one Aggregator run per Kind is in flight; callers of the
\* same Kind that miss the cache while another is waiting share its run
\* and receive the same Decision; every probe is invoked once per run, so
\* once in total for callers that share a run.
SingleFlight ==
    /\ \A kind \in Kinds : Cardinality({r \in flight : r.kind = kind}) <= 1
    /\ \A i \in DOMAIN callers : \A j \in callers[i].concurrentWith :
          /\ ~callers[i].hit
          /\ callers[i].run = callers[j].run
          /\ (i \in Returned /\ j \in Returned) =>
                callers[i].decision = callers[j].decision
    /\ \A k \in DOMAIN registry :
          invoked[registry[k].Name] = Cardinality(RunsOf(registry[k].Kind))

\* C14 witness: two Readiness callers missed the cache concurrently, both
\* have the Decision of the one run, and each of its two probes was
\* invoked once.
TwoConcurrentCallersSharedOneRun ==
    /\ Len(callers) >= 2
    /\ callers[1].kind = "Readiness" /\ callers[2].kind = "Readiness"
    /\ 1 \in callers[2].concurrentWith
    /\ {1, 2} \subseteq Returned
    /\ Len(callers[2].decision.Results) = 2
    /\ invoked["db"] = 1 /\ invoked["cache"] = 1

\* C15: an Evaluate call made while now < ExpiresAt of its Kind's entry
\* returns the cached Decision unchanged, invoking no probe and starting
\* no run; the first call made when the entry has expired starts a fresh
\* run that invokes every probe of the Kind.
CacheServesUntilExpiry ==
    [][Len(callers') = Len(callers) + 1 =>
        LET c == callers'[Len(callers')]
            entry == cache[c.kind]
            probes == List(registry, c.kind)
        IN  /\ (entry.present /\ clock < entry.ExpiresAt) =>
                    /\ c.state = "returned"
                    /\ c.decision = entry.Decision
                    /\ invoked' = invoked
                    /\ flight' = flight
                    /\ cache' = cache
            /\ (/\ entry.present
                /\ clock >= entry.ExpiresAt
                /\ \A r \in flight : r.kind # c.kind) =>
                    /\ c.state = "waiting"
                    /\ \E r \in flight' \ flight :
                          /\ r.kind = c.kind
                          /\ r.startedAt = clock
                          /\ r.probes = probes
                    /\ \A i \in DOMAIN probes :
                          invoked'[probes[i].Name] = invoked[probes[i].Name] + 1
      ]_vars

\* C15 witness: a run, then a call answered from the cache, then a call
\* after the entry expired that started the third caller's own run.
CachedThenExpired ==
    /\ Len(callers) = 3
    /\ callers[1].kind = "Readiness"
    /\ callers[2].kind = "Readiness" /\ callers[2].hit
    /\ callers[2].decision.Results # <<>>
    /\ callers[3].kind = "Readiness" /\ ~callers[3].hit
    /\ callers[3].run = 3
    /\ invoked["db"] = 2

Reorderings(seq) ==
    {[i \in DOMAIN seq |-> seq[f[i]]] :
        f \in {g \in [DOMAIN seq -> DOMAIN seq] :
                    \A i, j \in DOMAIN seq : g[i] = g[j] => i = j}}

\* C16: in every Decision, Overall is Unhealthy exactly when some result
\* has Healthy = false and Healthy otherwise (also with no result at all);
\* Degraded never occurs; every reordering of the results reduces to the
\* same verdict.
ReductionRule ==
    \A i \in Returned :
        LET d == callers[i].decision
        IN  /\ d.Overall \in {"Healthy", "Unhealthy"}
            /\ d.Overall = "Unhealthy" <=>
                    \E k \in DOMAIN d.Results : ~d.Results[k].Healthy
            /\ \A reordered \in Reorderings(d.Results) :
                    Reduce(reordered) = d.Overall

\* C16 witness: a Decision whose first result is unhealthy and whose
\* second is healthy, reduced to Unhealthy.
UnhealthyThenHealthyReduced ==
    \E i \in Returned :
        /\ Len(callers[i].decision.Results) = 2
        /\ ~callers[i].decision.Results[1].Healthy
        /\ callers[i].decision.Results[2].Healthy
        /\ callers[i].decision.Overall = "Unhealthy"

\* The run of this step's flight that ends in the step.
Ended(run) == \A r \in flight' : r.id # run.id

\* C17: a run ends no later than its aggregate deadline; the Decision it
\* yields is complete, records each probe still running as Healthy=false,
\* TimedOut=true, Err=ErrAggregateDeadline, and is returned, without an
\* error, to every caller waiting on the run.
AggregateDeadlineBoundsEvaluate ==
    /\ [](\A run \in flight : clock <= run.startedAt + aggregateDeadline)
    /\ [][\A run \in flight : Ended(run) =>
            LET d == cache'[run.kind].Decision
            IN  /\ Len(d.Results) = Len(run.probes)
                /\ \A i \in Pending(run) :
                      /\ d.Results[i].ProbeName = run.probes[i].Name
                      /\ ~d.Results[i].Healthy
                      /\ d.Results[i].TimedOut
                      /\ d.Results[i].Err = ErrAggregateDeadline
                /\ \A i \in DOMAIN callers :
                      (callers[i].state = "waiting" /\ callers[i].run = run.id)
                        => /\ callers'[i].state = "returned"
                           /\ callers'[i].decision = d
         ]_vars

\* C17 witness: a returned Decision with one healthy result and one
\* result cut off by the aggregate deadline.
DeadlineCutOffOneProbe ==
    \E i \in Returned :
        LET d == callers[i].decision
        IN  /\ Len(d.Results) = 2
            /\ \E k \in DOMAIN d.Results : d.Results[k].Healthy
            /\ \E k \in DOMAIN d.Results :
                  /\ d.Results[k].Err = ErrAggregateDeadline
                  /\ d.Results[k].Duration = aggregateDeadline

\* C18: the results of every Decision name the probes of its Kind in
\* registration order, whatever the order in which the probes completed.
ResultsInRegistrationOrder ==
    \A i \in Returned :
        LET d == callers[i].decision
            probes == List(registry, callers[i].kind)
        IN  /\ Len(d.Results) = Len(probes)
            /\ \A k \in DOMAIN probes : d.Results[k].ProbeName = probes[k].Name

\* C18 witness: a Decision whose second probe completed before its first.
SecondProbeCompletedFirst ==
    \E i \in Returned :
        LET d == callers[i].decision
        IN  /\ Len(d.Results) = 2
            /\ ~d.Results[1].TimedOut /\ ~d.Results[2].TimedOut
            /\ d.Results[1].Duration > d.Results[2].Duration

---------------------------------------------------------------------------
(* Configuration and process properties *)

ConfigLoaded == "port" \in DOMAIN proc.config

Unset(name) == name \notin DOMAIN env

UnsetOrEmpty(name) == Unset(name) \/ env[name] = <<>>

\* C11: for every value of PORT (unset, empty, non-numeric, zero,
\* negative, above 65535, valid), config.port is an integer with
\* 0 < config.port <= 65535.
ConfigPortIsValidPort ==
    ConfigLoaded =>
        /\ ~proc.config.port.isNaN
        /\ proc.config.port.value \in 1..65535

\* The number a string of decimal digits denotes, read from its last digit.
RECURSIVE DecimalValue(_)
DecimalValue(string) ==
    IF string = <<>> THEN 0
    ELSE DecimalValue(SubSeq(string, 1, Len(string) - 1)) * 10
            + CHOOSE d \in 0..9 : ToString(d) = string[Len(string)]

\* A string that is a decimal port number: digits only, from 1 to 65535.
IsDecimalPort(string) ==
    /\ string # <<>>
    /\ \A i \in DOMAIN string : string[i] \in {ToString(d) : d \in 0..9}
    /\ DecimalValue(string) \in 1..65535

\* C12: while the process listens, the port is 3000 when PORT is unset or
\* empty and the number PORT denotes when PORT is a decimal port number,
\* and the host is 0.0.0.0 when HOST is unset or empty.
ListensOnConfiguredAddress ==
    proc.address.listening =>
        /\ UnsetOrEmpty("PORT") => proc.address.port = 3000
        /\ UnsetOrEmpty("HOST") => proc.address.host = DefaultHost
        /\ (~Unset("PORT") /\ IsDecimalPort(env.PORT)) =>
                proc.address.port = DecimalValue(env.PORT)

\* C12 witness: PORT unset and HOST empty, listening on 0.0.0.0:3000, with
\* a request being served.
ListeningOnDefaults ==
    /\ Unset("PORT")
    /\ ~Unset("HOST") /\ env.HOST = <<>>
    /\ proc.address = Address(DefaultHost, 3000)
    /\ inflight # EmptyBag

\* C13: when NODE_ENV is unset, config.nodeEnv is 'development'.
NodeEnvDefaultsToDevelopment ==
    (ConfigLoaded /\ Unset("NODE_ENV")) =>
        proc.config.nodeEnv =
            <<"d", "e", "v", "e", "l", "o", "p", "m", "e", "n", "t">>

\* C19: once the server listens, a delivered SIGINT or SIGTERM leads to
\* the exit of the process with code 0, and at that exit server.close()
\* has been called and has completed.
GracefulShutdown ==
    /\ [](proc.exit = Exited(0) => proc.closeCalls > 0 /\ proc.closed)
    /\ (proc.pc = "listening" /\ proc.stdout # <<>>)
            ~> (proc.exit = Exited(0))

\* C19 witness: exit with code 0 after SIGTERM, the server closed.
ExitedAfterGracefulShutdown ==
    /\ proc.exit = Exited(0)
    /\ proc.closed
    /\ proc.closeCalls = 1
    /\ proc.stdout[1][2] = "SIGTERM"

\* C20: a rejection of buildServer() or of server.listen() is logged and
\* ends the process with code 1, with no signal handler installed and the
\* server never listening; exit code 0 comes from a signal handler only.
StartupFailureExitsWithOne ==
    /\ [](proc.stderr # <<>> =>
            /\ proc.exit = Exited(1)
            /\ proc.handlers = {}
            /\ ~proc.address.listening
            /\ proc.stdout = <<>>)
    /\ [](proc.exit = Exited(1) => Len(proc.stderr) = 1)
    /\ [](proc.exit = Exited(0) => proc.stdout # <<>> /\ proc.handlers # {})
    /\ [][(/\ proc.pc \in {"buildServer", "listen"}
           /\ proc'.pc = "exited"
           /\ proc'.exit.state = "exited")
            => /\ proc'.exit = Exited(1)
               /\ proc'.stderr[1][1] = "Error starting server:"]_vars
    /\ [][proc.pc = "exited" => proc'.pc = "exited"]_vars

\* C20 witness: listen rejected the port and the process exited with 1.
ExitedOnListenFailure ==
    /\ proc.exit = Exited(1)
    /\ proc.stderr[1][2] = ERR_SOCKET_BAD_PORT
    /\ server # NoServer

---------------------------------------------------------------------------
(* buildServer and error handler properties *)

\* The caller supplies no logger setting: no logger key, or undefined.
NoLoggerSetting(o) == "logger" \notin DOMAIN o \/ o.logger = "undefined"

\* C21: the built server logs when the caller supplied no logger setting
\* (opts omitted, no logger key, logger undefined) and follows the caller's
\* logger setting otherwise.
BuildServerLoggerDefault ==
    server # NoServer =>
        server.logger = IF NoLoggerSetting(buildOpts) THEN TRUE
                        ELSE buildOpts.logger = "true"

\* The instance was made by buildServer: it has the /status routes.
BuiltByBuildServer == \E rt \in server.routes : rt.path = "/status"

\* The error an exchange ended with: the one its route's handler threw, or
\* the one the body parser raised before any handler ran.
ErrorOf(x) ==
    IF x.calls = <<"testErrorHandler">> THEN Thrown(x) ELSE x.parse.error

\* error.statusCode || 500, for a statusCode that is a number or undefined.
StatusCodeOr500(error) ==
    IF \/ "statusCode" \notin DOMAIN error
       \/ error.statusCode = Number(0)
       \/ error.statusCode = NaN
    THEN Number(500) ELSE error.statusCode

\* error.name || 'Error', for a name that is a string or undefined.
NameOrError(error) ==
    IF "name" \notin DOMAIN error \/ error.name = "" THEN "Error"
    ELSE error.name

\* The body the plugin's handler writes for an error.
HandlerBody(error) ==
    [statusCode |-> StatusCodeOr500(error),
     error |-> NameOrError(error),
     message |-> error.message]

\* C22, as claimed: on an instance made by buildServer, an error thrown by
\* a route registered afterwards is answered by the plugin's error handler
\* with the body {statusCode, error, message} (500 and the error's message
\* when the error has no statusCode).
ErrorHandlerCoversLaterRoutes ==
    \A x \in InFlight :
        (BuiltByBuildServer /\ ThrewAndAnswered(x)) =>
            /\ x.errorHandledBy = "errorHandler"
            /\ x.req.method # "HEAD" => x.reply.body = HandlerBody(Thrown(x))
            /\ "statusCode" \notin DOMAIN Thrown(x) => x.reply.statusCode = 500

\* C22, amended: the same for an error whose statusCode is missing, 0, NaN
\* or a number from 100 to 599, with or without a fraction; the response
\* line has the number without its fraction.  For a number below 100 other
\* than 0, or above 599, the plugin's handler throws and Fastify's own
\* handler answers 500 with the message of FST_ERR_BAD_STATUS_CODE.
ErrorHandlerCoversLaterRoutesUnlessBadStatus ==
    \A x \in InFlight :
        (BuiltByBuildServer /\ ThrewAndAnswered(x)) =>
            LET statusCode == StatusCodeOr500(Thrown(x))
            IN  IF AtLeast(statusCode, 100) /\ AtMost(statusCode, 599)
                THEN /\ x.errorHandledBy = "errorHandler"
                     /\ x.reply.statusCode = statusCode.value
                     /\ x.req.method # "HEAD" =>
                            x.reply.body = HandlerBody(Thrown(x))
                ELSE /\ x.errorHandledBy = "defaultErrorHandler"
                     /\ x.reply.statusCode = 500
                     /\ x.req.method # "HEAD" =>
                            /\ x.reply.body.statusCode = Number(500)
                            /\ x.reply.body.message =
                                 "Called reply with an invalid status code: "
                                    \o NumberToString(statusCode)

\* C22 witness: a route added after buildServer returned threw an error
\* with statusCode 404.5 and the response is the handler's body, with that
\* number, on a response with status 404.
LaterRouteErrorAnswered ==
    \E x \in InFlight :
        /\ BuiltByBuildServer
        /\ ThrewAndAnswered(x)
        /\ x.req.method = "GET"
        /\ Thrown(x) = [statusCode |-> Decimal(404, 5), name |-> "Error",
                        message |-> "Test error"]
        /\ x.errorHandledBy = "errorHandler"
        /\ x.reply.statusCode = 404
        /\ x.reply.body = [statusCode |-> Decimal(404, 5), error |-> "Error",
                           message |-> "Test error"]

\* C23: in every response the error handler produces, the body's error
\* field is the error's name when that is not empty, and 'Error' when it
\* is empty or the error has none; the message field is the error's
\* message.
ErrorBodyNamesTheError ==
    \A x \in InFlight :
        (x.errorHandledBy = "errorHandler" /\ x.req.method # "HEAD") =>
            /\ x.reply.body.error =
                    IF "name" \in DOMAIN ErrorOf(x) /\ ErrorOf(x).name # ""
                    THEN ErrorOf(x).name ELSE "Error"
            /\ x.reply.body.message = ErrorOf(x).message

\* C23 witness: an error without a name answered with 'Error' and its
\* message.
UnnamedErrorAnswered ==
    \E x \in InFlight :
        /\ x.errorHandledBy = "errorHandler"
        /\ x.req.method = "GET"
        /\ ThrewAndAnswered(x)
        /\ "name" \notin DOMAIN Thrown(x)
        /\ x.reply.body.error = "Error"
        /\ x.reply.body.message = "Test error"

\* A response of the 405 handler.
AnsweredBy405Handler(x) ==
    /\ x.stage = "done"
    /\ "methodNotAllowedHandler" \in Range(x.calls)
    /\ x.errorHandledBy = "none"

\* The error's statusCode is falsy: undefined, 0 or NaN.
FalsyStatusCode(error) ==
    \/ "statusCode" \notin DOMAIN error
    \/ error.statusCode = Number(0)
    \/ error.statusCode = NaN

\* C24, as claimed: in every response of the error handler or of the 405
\* handler the body's statusCode equals the response's status, and an error
\* with a falsy statusCode (none, 0, NaN) has 500 in both.
BodyStatusCodeIsResponseStatus ==
    \A x \in InFlight :
        /\ ((x.errorHandledBy = "errorHandler" \/ AnsweredBy405Handler(x))
                /\ x.req.method # "HEAD")
            => x.reply.body.statusCode = Number(x.reply.statusCode)
        /\ (/\ x.errorHandledBy = "errorHandler"
            /\ x.req.method # "HEAD"
            /\ FalsyStatusCode(ErrorOf(x)))
            => /\ x.reply.statusCode = 500
               /\ x.reply.body.statusCode = Number(500)

\* C24, amended: the body's statusCode equals the response's status in every
\* response of the 405 handler, and in every response of the error handler
\* whose body has an integer there; an error with a falsy statusCode (none,
\* 0, NaN) has 500 in both.  For an error whose statusCode has a fraction
\* the body has the number as thrown and the response line the number
\* without the fraction.
BodyStatusCodeIsResponseStatusUnlessFraction ==
    \A x \in InFlight :
        /\ (AnsweredBy405Handler(x) /\ x.req.method # "HEAD")
            => x.reply.body.statusCode = Number(x.reply.statusCode)
        /\ (x.errorHandledBy = "errorHandler" /\ x.req.method # "HEAD")
            => /\ x.reply.body.statusCode = StatusCodeOr500(ErrorOf(x))
               /\ IF IsInteger(x.reply.body.statusCode)
                  THEN x.reply.body.statusCode = Number(x.reply.statusCode)
                  ELSE /\ x.reply.body.statusCode # Number(x.reply.statusCode)
                       /\ x.reply.body.statusCode.value = x.reply.statusCode
        /\ (/\ x.errorHandledBy = "errorHandler"
            /\ x.req.method # "HEAD"
            /\ FalsyStatusCode(ErrorOf(x)))
            => /\ x.reply.statusCode = 500
               /\ x.reply.body.statusCode = Number(500)

\* C24 witness: an error thrown with statusCode NaN answered with 500 as
\* status and in the body.
NaNStatusCodeAnswered500 ==
    \E x \in InFlight :
        /\ x.errorHandledBy = "errorHandler"
        /\ x.req.method = "GET"
        /\ ThrewAndAnswered(x)
        /\ "statusCode" \in DOMAIN Thrown(x)
        /\ Thrown(x).statusCode = NaN
        /\ x.reply.statusCode = 500
        /\ x.reply.body.statusCode = Number(500)

---------------------------------------------------------------------------
(* Signal handler properties *)

\* C25: the SIGINT and SIGTERM handlers are installed only once
\* server.listen() has resolved, and both in one step: no handler is
\* installed before the server listens, never exactly one of the two is
\* installed, and a signal delivered before listen() resolved ends the
\* process by its default action without a call of server.close().
SignalHandlersInstalledAfterListen ==
    /\ [](proc.handlers # {} => proc.address.listening \/ proc.closed)
    /\ [](proc.pc \in {"import", "buildServer", "listen"} =>
            proc.handlers = {})
    /\ [](proc.handlers \in {{}, signals})
    /\ [](proc.exit.state = "killed" =>
            /\ proc.handlers = {}
            /\ proc.closeCalls = 0
            /\ proc.stdout = <<>>
            /\ ~proc.closed)
    /\ [][proc.pc \in {"import", "buildServer", "listen"} =>
            /\ proc'.closeCalls = 0
            /\ proc'.handlers # {} =>
                    /\ proc.pc = "listen"
                    /\ proc'.address.listening
                    /\ proc'.handlers = signals]_vars

\* C25 witness: SIGTERM arrived after buildServer() and before listen()
\* resolved; the process was killed and close() never called.
KilledBeforeListening ==
    /\ proc.exit = Killed("SIGTERM")
    /\ server # NoServer
    /\ ~proc.address.listening
    /\ proc.handlers = {}
    /\ proc.closeCalls = 0

\* C26: a second SIGINT or SIGTERM delivered while the first handler
\* awaits server.close() calls close() a second time, and the process then
\* still ends, with exit code 0.
SecondSignalStillExitsZero ==
    /\ [][(proc.closeCalls = 1 /\ proc'.stdout # proc.stdout) =>
            proc'.closeCalls = 2]_vars
    /\ [](proc.closeCalls >= 2 /\ proc.exit # Running =>
            proc.exit = Exited(0))
    /\ (proc.closeCalls = 2) ~> (proc.exit = Exited(0))

\* C26 witness: SIGINT then SIGTERM were handled, close() was called
\* twice and the process exited with code 0.
ExitedZeroAfterTwoSignals ==
    /\ proc.exit = Exited(0)
    /\ proc.closeCalls = 2
    /\ Len(proc.stdout) = 2
    /\ proc.stdout[1][2] = "SIGINT"
    /\ proc.stdout[2][2] = "SIGTERM"

=============================================================================
